---- MODULE Spec2Model ----
(***************************************************************************)
(* A state-machine model of the ETL scripts of the Canadian housing stress *)
(* repository: pipeline.py, fact_core_province_stress.py,                  *)
(* household_interest_income_dsr.py, interest_Rate.py and                  *)
(* mortgage_amount_canada_housing.py.  Each script is a linear run:        *)
(* download -> resolve -> bucketize -> aggregate -> join -> save.  A run   *)
(* is one behaviour; the downloaded tables are chosen in Init.             *)
(*                                                                         *)
(* Cells of raw tables are text, as in the CSV files.  Numbers are exact   *)
(* rationals extended with NaN and +/-infinity (float64 rounding is not    *)
(* modelled).  Timestamps are [y, m, d] records, NaT being the null one.   *)
(***************************************************************************)
EXTENDS Integers, Sequences, FiniteSets, TLC

\* ------------------------------------------------------------------------
\* Text: the operations of Python's str and pandas' .str the scripts use
\* ------------------------------------------------------------------------

\* The characters the tables use, in code-point order (Python compares
\* strings by code point).
CodePoints ==
    " (),-./0123456789:=ABCDEFGHIJKLMNOPQRSTUVWXYZ_abcdefghijklmnopqrstuvwxyz"

Upper == "ABCDEFGHIJKLMNOPQRSTUVWXYZ"

Lowers == "abcdefghijklmnopqrstuvwxyz"

Digits == "0123456789"

CharAt(s, i) == SubSeq(s, i, i)

IndexIn(alphabet, c) ==
    IF \E i \in 1..Len(alphabet) : CharAt(alphabet, i) = c
    THEN CHOOSE i \in 1..Len(alphabet) : CharAt(alphabet, i) = c
    ELSE 0

LowerChar(c) ==
    LET i == IndexIn(Upper, c) IN IF i > 0 THEN CharAt(Lowers, i) ELSE c

RECURSIVE Lower(_)
Lower(s) ==
    IF Len(s) = 0 THEN ""
    ELSE LowerChar(CharAt(s, 1)) \o Lower(SubSeq(s, 2, Len(s)))

\* t in s
Contains(s, t) ==
    \E i \in 1..(Len(s) - Len(t) + 1) : SubSeq(s, i, i + Len(t) - 1) = t

RECURSIVE Strip(_)
Strip(s) ==
    IF Len(s) = 0 THEN ""
    ELSE IF CharAt(s, 1) = " " THEN Strip(SubSeq(s, 2, Len(s)))
    ELSE IF CharAt(s, Len(s)) = " " THEN Strip(SubSeq(s, 1, Len(s) - 1))
    ELSE s

\* s.replace(c, "") for a one-character c
RECURSIVE RemoveChar(_, _)
RemoveChar(s, c) ==
    IF Len(s) = 0 THEN ""
    ELSE (IF CharAt(s, 1) = c THEN "" ELSE CharAt(s, 1))
         \o RemoveChar(SubSeq(s, 2, Len(s)), c)

\* a < b for strings, by code point
RECURSIVE StrLess(_, _)
StrLess(a, b) ==
    IF Len(b) = 0 THEN FALSE
    ELSE IF Len(a) = 0 THEN TRUE
    ELSE IF CharAt(a, 1) = CharAt(b, 1)
         THEN StrLess(SubSeq(a, 2, Len(a)), SubSeq(b, 2, Len(b)))
         ELSE IndexIn(CodePoints, CharAt(a, 1)) < IndexIn(CodePoints, CharAt(b, 1))

AllDigits(s) ==
    Len(s) > 0 /\ \A i \in 1..Len(s) : IndexIn(Digits, CharAt(s, i)) > 0

RECURSIVE ToInt(_)
ToInt(s) ==
    IF Len(s) = 0 THEN 0
    ELSE ToInt(SubSeq(s, 1, Len(s) - 1)) * 10
         + (IndexIn(Digits, CharAt(s, Len(s))) - 1)

\* ------------------------------------------------------------------------
\* Sequences
\* ------------------------------------------------------------------------

Range(s) == {s[i] : i \in 1..Len(s)}

\* The elements of the finite set S in increasing order; before[x, y]
\* tells whether x comes before y
SortSet(S, before) ==
    LET f[T \in SUBSET S] ==
            IF T = {} THEN <<>>
            ELSE LET lo == CHOOSE x \in T : \A y \in T \ {x} : before[x, y]
                 IN  <<lo>> \o f[T \ {lo}]
    IN  f[S]

\* sorted(S) of numbers, of text
SortInts(S) == SortSet(S, [x \in S, y \in S |-> x < y])

SortStrings(S) == SortSet(S, [x \in S, y \in S |-> StrLess(x, y)])

\* ------------------------------------------------------------------------
\* Numbers: float64 cells as exact rationals with NaN and infinities
\* ------------------------------------------------------------------------

RECURSIVE GCD(_, _)
GCD(a, b) == IF b = 0 THEN a ELSE GCD(b, a % b)

Abs(n) == IF n < 0 THEN -n ELSE n

NaN == [k |-> "nan", n |-> 0, d |-> 1]

Inf == [k |-> "inf", n |-> 1, d |-> 1]

NegInf == [k |-> "inf", n |-> -1, d |-> 1]

\* n / d in lowest terms, d # 0
Frac(n, d) ==
    LET g == GCD(Abs(n), Abs(d))
        s == IF d < 0 THEN -1 ELSE 1
    IN  [k |-> "num", n |-> (s * n) \div g, d |-> (s * d) \div g]

Num(n) == [k |-> "num", n |-> n, d |-> 1]

IsNull(v) == v.k = "nan"

IsInfinite(v) == v.k = "inf"

Sign(v) == IF v.n < 0 THEN -1 ELSE 1

\* (an / ad) * (bn / bd) in lowest terms, cancelling before multiplying
Product(an, ad, bn, bd) ==
    LET p == Frac(an, bd)
        q == Frac(bn, ad)
    IN  Frac(p.n * q.n, p.d * q.d)

\* a + b
FAdd(a, b) ==
    IF IsNull(a) \/ IsNull(b) THEN NaN
    ELSE IF IsInfinite(a) /\ IsInfinite(b) THEN (IF a = b THEN a ELSE NaN)
    ELSE IF IsInfinite(a) THEN a
    ELSE IF IsInfinite(b) THEN b
    ELSE LET g == GCD(a.d, b.d)
         IN  Frac(a.n * (b.d \div g) + b.n * (a.d \div g), (a.d \div g) * b.d)

\* a - b
FSub(a, b) ==
    IF IsNull(b) THEN NaN ELSE FAdd(a, [b EXCEPT !.n = -b.n])

\* a * b
FMul(a, b) ==
    IF IsNull(a) \/ IsNull(b) THEN NaN
    ELSE IF IsInfinite(a) \/ IsInfinite(b)
         THEN (IF a.n = 0 \/ b.n = 0 THEN NaN
               ELSE IF Sign(a) = Sign(b) THEN Inf ELSE NegInf)
    ELSE Product(a.n, a.d, b.n, b.d)

\* a / b, IEEE-754: x/0 is an infinity, 0/0 is NaN, nothing raises
FDiv(a, b) ==
    IF IsNull(a) \/ IsNull(b) THEN NaN
    ELSE IF IsInfinite(b) THEN (IF IsInfinite(a) THEN NaN ELSE Num(0))
    ELSE IF IsInfinite(a) THEN (IF Sign(a) = Sign(b) THEN Inf ELSE NegInf)
    ELSE IF b.n = 0
         THEN (IF a.n = 0 THEN NaN ELSE IF a.n > 0 THEN Inf ELSE NegInf)
    ELSE Product(a.n, a.d, b.d, b.n)

\* pd.to_numeric(text, errors="coerce"): digits, or digits "." digits;
\* anything else ("x", "1,234.5", an empty cell) is NaN
ToNumeric(s) ==
    IF AllDigits(s) THEN Num(ToInt(s))
    ELSE IF \E i \in 2..(Len(s) - 1) :
                /\ CharAt(s, i) = "."
                /\ AllDigits(SubSeq(s, 1, i - 1))
                /\ AllDigits(SubSeq(s, i + 1, Len(s)))
         THEN LET i == CHOOSE j \in 2..(Len(s) - 1) : CharAt(s, j) = "."
                  f == SubSeq(s, i + 1, Len(s))
                  RECURSIVE Pow10(_)
                  Pow10(e) == IF e = 0 THEN 1 ELSE 10 * Pow10(e - 1)
              IN  Frac(ToInt(SubSeq(s, 1, i - 1)) * Pow10(Len(f)) + ToInt(f),
                       Pow10(Len(f)))
    ELSE NaN

\* ------------------------------------------------------------------------
\* Timestamps and the Temporal Bucketizer
\* ------------------------------------------------------------------------

NaT == [y |-> 0, m |-> 0, d |-> 0]

Timestamp(y, m, d) ==
    IF m \in 1..12 /\ d \in 1..31 THEN [y |-> y, m |-> m, d |-> d] ELSE NaT

TsLess(a, b) ==
    \/ a.y < b.y
    \/ a.y = b.y /\ a.m < b.m
    \/ a.y = b.y /\ a.m = b.m /\ a.d < b.d

\* .dt.to_period("M").dt.to_timestamp()
MonthStart(t) == IF t = NaT THEN NaT ELSE [t EXCEPT !.d = 1]

\* .dt.to_period("Q").dt.to_timestamp()
QuarterStart(t) ==
    IF t = NaT THEN NaT
    ELSE [y |-> t.y, m |-> 3 * ((t.m - 1) \div 3) + 1, d |-> 1]

\* A quarter token <year>Q<n> or <year>-Q<n>, Q in either case (what pandas'
\* date parser accepts without going through a calendar date).
IsQuarterToken(s) ==
    /\ Len(s) \in {6, 7}
    /\ AllDigits(SubSeq(s, 1, 4))
    /\ Lower(CharAt(s, Len(s) - 1)) = "q"
    /\ IndexIn("1234", CharAt(s, Len(s))) > 0
    /\ Len(s) = 7 => CharAt(s, 5) = "-"

QuarterTokenStart(s) ==
    Timestamp(ToInt(SubSeq(s, 1, 4)), 3 * (ToInt(CharAt(s, Len(s))) - 1) + 1, 1)

\* pd.to_datetime(text, errors="coerce") on the shapes the tables carry:
\* YYYY-MM-DD, YYYY-MM, a quarter token; anything else is NaT.
ToDatetime(s) ==
    IF /\ Len(s) = 10
       /\ AllDigits(SubSeq(s, 1, 4)) /\ CharAt(s, 5) = "-"
       /\ AllDigits(SubSeq(s, 6, 7)) /\ CharAt(s, 8) = "-"
       /\ AllDigits(SubSeq(s, 9, 10))
    THEN Timestamp(ToInt(SubSeq(s, 1, 4)), ToInt(SubSeq(s, 6, 7)),
                   ToInt(SubSeq(s, 9, 10)))
    ELSE IF /\ Len(s) = 7
            /\ AllDigits(SubSeq(s, 1, 4)) /\ CharAt(s, 5) = "-"
            /\ AllDigits(SubSeq(s, 6, 7))
    THEN Timestamp(ToInt(SubSeq(s, 1, 4)), ToInt(SubSeq(s, 6, 7)), 1)
    ELSE IF IsQuarterToken(s) THEN QuarterTokenStart(s)
    ELSE NaT

to_month_start(ref_date) == MonthStart(ToDatetime(ref_date))

to_quarter_start_from_date(dt) == QuarterStart(ToDatetime(dt))

\* The strings pandas reads as a missing period
NatStrings == {"NaT", "nat", "NAT", "nan", "NaN", "NAN"}

\* parse_quarter (household_interest_income_dsr.py) on one cell: str(cell)
\* stripped, blanks and dashes removed, then pd.PeriodIndex(freq="Q"): a
\* quarter token or a YYYYMMDD date gives its quarter start, a missing cell
\* NaT; any other text makes PeriodIndex raise (ok = FALSE)
parse_quarter(ref_date) ==
    LET s == RemoveChar(RemoveChar(Strip(ref_date), " "), "-")
    IN  IF s \in NatStrings THEN [ok |-> TRUE, ts |-> NaT]
        ELSE IF IsQuarterToken(s) THEN [ok |-> TRUE, ts |-> QuarterTokenStart(s)]
        ELSE IF Len(s) = 8 /\ AllDigits(s)
             THEN [ok |-> TRUE,
                   ts |-> QuarterStart(Timestamp(ToInt(SubSeq(s, 1, 4)),
                                                 ToInt(SubSeq(s, 5, 6)),
                                                 ToInt(SubSeq(s, 7, 8))))]
        ELSE [ok |-> FALSE, ts |-> NaT]

\* ------------------------------------------------------------------------
\* Tables.  A raw table is [cols |-> <<names>>, rows |-> <<records>>], each
\* row a record over the column names with text cells; "" is an empty cell
\* (NaN after read_csv).  Derived tables are sequences of records.
\* ------------------------------------------------------------------------

Table(cols, rows) == [cols |-> cols, rows |-> rows]

HasCol(df, c) == c \in Range(df.cols)

\* str(cell) of .astype(str): NaN prints as "nan"
AsStr(cell) == IF cell = "" THEN "nan" ELSE cell

\* find_col(df, contains_text): first column whose lower-cased name
\* contains the lower-cased text; "" stands for None
find_col(df, contains_text) ==
    LET t   == Lower(contains_text)
        hit == {i \in 1..Len(df.cols) : Contains(Lower(df.cols[i]), t)}
    IN  IF hit = {} THEN ""
        ELSE df.cols[CHOOSE i \in hit : \A j \in hit : i <= j]

\* numeric_value(df): VALUE coerced to numbers
numeric_value(rows) ==
    [i \in 1..Len(rows) |-> [rows[i] EXCEPT !.VALUE = ToNumeric(@)]]

\* ------------------------------------------------------------------------
\* Quarterly Aggregator: groupby(...).mean() / .sum() / .last()
\* ------------------------------------------------------------------------

NonNull(vals) == SelectSeq(vals, LAMBDA v : ~IsNull(v))

RECURSIVE Total(_)
Total(vals) == IF vals = <<>> THEN Num(0) ELSE FAdd(Head(vals), Total(Tail(vals)))

\* GroupBy.sum(): NaN cells are skipped; a group of NaN cells only sums to 0
GroupSum(vals) == Total(NonNull(vals))

\* The mean with the NaN cells counted in the denominator
GroupMeanOfAll(vals) ==
    IF NonNull(vals) = <<>> THEN NaN ELSE FDiv(Total(NonNull(vals)), Num(Len(vals)))

\* GroupBy.mean(): the mean of the non-NaN cells; NaN when there are none
GroupMean(vals) ==
    LET nn == NonNull(vals)
    IN  IF nn = <<>> THEN NaN ELSE FDiv(Total(nn), Num(Len(nn)))

\* GroupBy.last(): the last non-NaN cell of the group in row order
GroupLast(vals) ==
    LET nn == NonNull(vals) IN IF nn = <<>> THEN NaN ELSE nn[Len(nn)]

KeyPQ(r) == <<r.Province, r.Quarter>>

\* groupby drops the rows whose key holds a null (dropna=True)
KeysPQ(rows) ==
    {KeyPQ(rows[i]) : i \in {j \in 1..Len(rows) :
                              rows[j].Province # "" /\ rows[j].Quarter # NaT}}

KeyLessPQ(a, b) == StrLess(a[1], b[1]) \/ (a[1] = b[1] /\ TsLess(a[2], b[2]))

\* The cells of a row in the columns on, the key of a groupby or a merge
KeyOn(r, on) == [i \in 1..Len(on) |-> r[on[i]]]

\* The cells of column col of the rows of the group of key k, in row order
GroupCells(rows, on, k, col) ==
    LET sel == SelectSeq(rows, LAMBDA r : KeyOn(r, on) = k)
    IN  [i \in 1..Len(sel) |-> sel[i][col]]

\* .sum() / .mean() / .last() of the cells of one group
Reduce(how, vals) ==
    CASE how = "sum"  -> GroupSum(vals)
      [] how = "mean" -> GroupMean(vals)
      [] how = "last" -> GroupLast(vals)

SortKeysPQ(S) == SortSet(S, [x \in S, y \in S |-> KeyLessPQ(x, y)])

SortQuarters(S) == SortSet(S, [x \in S, y \in S |-> TsLess(x, y)])

\* One output row for every input row with a key, nothing grouped
GroupEachRow(rows, col, how, name) ==
    LET keyed == SelectSeq(rows, LAMBDA r : r.Province # "" /\ r.Quarter # NaT)
    IN  [i \in 1..Len(keyed) |->
            [Province |-> keyed[i].Province, Quarter |-> keyed[i].Quarter]
            @@ (name :> Reduce(how, <<keyed[i][col]>>))]

\* df.groupby(["Province","Quarter"], as_index=False)[col].<how>(), the
\* result column renamed to out; groups come out sorted by key
GroupByPQ(rows, col, how, name) ==
    LET ks == SortKeysPQ(KeysPQ(rows))
    IN  [i \in 1..Len(ks) |->
            [Province |-> ks[i][1], Quarter |-> ks[i][2]]
            @@ (name :> Reduce(how, GroupCells(rows, <<"Province", "Quarter">>, ks[i], col)))]

KeysQ(rows) ==
    {rows[i].Quarter : i \in {j \in 1..Len(rows) : rows[j].Quarter # NaT}}

\* df.groupby("Quarter", as_index=False)[col].<how>()
GroupByQ(rows, col, how, name) ==
    LET ks == SortQuarters(KeysQ(rows))
    IN  [i \in 1..Len(ks) |->
            [Quarter |-> ks[i]]
            @@ (name :> Reduce(how, GroupCells(rows, <<"Quarter">>, <<ks[i]>>, col)))]

\* sort_values: the rows in ascending order, ties in row order; less[i, j]
\* tells whether row i sorts strictly before row j
SortRows(rows, less) ==
    LET n   == Len(rows)
        idx == SortSet(1..n, [i \in 1..n, j \in 1..n |->
                                 less[i, j] \/ (~less[j, i] /\ i < j)])
    IN  [k \in 1..n |-> rows[idx[k]]]

RECURSIVE Flatten(_)
Flatten(ss) == IF ss = <<>> THEN <<>> ELSE Head(ss) \o Flatten(Tail(ss))

NullCells(cols) == [c \in cols |-> NaN]

\* The left merge keyed on the last column of on alone
LeftMergeOnLast(left, right, on, rcols) ==
    Flatten([i \in 1..Len(left) |->
        LET m == SelectSeq(right, LAMBDA r : r[on[Len(on)]] = left[i][on[Len(on)]])
        IN  IF m = <<>> THEN <<left[i] @@ NullCells(rcols)>>
            ELSE [j \in 1..Len(m) |-> left[i] @@ [c \in rcols |-> m[j][c]]]])

\* left.merge(right, on=<key>, how="left"): every left row, in order, once
\* per matching right row, or once with null right cells when none matches
LeftMerge(left, right, on, rcols) ==
    Flatten([i \in 1..Len(left) |->
        LET m == SelectSeq(right, LAMBDA r : KeyOn(r, on) = KeyOn(left[i], on))
        IN  IF m = <<>> THEN <<left[i] @@ NullCells(rcols)>>
            ELSE [j \in 1..Len(m) |-> left[i] @@ [c \in rcols |-> m[j][c]]]])

\* The table with each column of cols renamed to its name followed by sfx
Suffixed(rows, on, cols, sfx) ==
    LET named == {<<c, c \o sfx>> : c \in cols}
    IN  [i \in 1..Len(rows) |->
            [n \in Range(on) \cup {q[2] : q \in named} |->
                IF n \in Range(on) THEN rows[i][n]
                ELSE rows[i][(CHOOSE q \in named : q[2] = n)[1]]]]

\* df.merge(df, on=<key>, how="left"): the columns both sides carry come
\* out twice, with the suffixes _x (left) and _y (right)
SelfMerge(rows, on, cols) ==
    LeftMerge(Suffixed(rows, on, cols, "_x"), Suffixed(rows, on, cols, "_y"), on,
              {c \o "_y" : c \in cols})

\* A duplicate count that sees no duplicate
duplicated_none(rows, on) == 0 * Len(rows)

\* df.duplicated(keys).sum(): the rows whose key an earlier row carries
duplicated(rows, on) ==
    Cardinality({i \in 1..Len(rows) :
                    \E j \in 1..(i - 1) : KeyOn(rows[j], on) = KeyOn(rows[i], on)})

\* left.merge(right, on=<key>, how="outer"): the left merge, then the right
\* rows no left row matches, their left cells null
OuterMerge(left, right, on, lcols, rcols) ==
    LET alone == SelectSeq(right, LAMBDA r :
                     \A i \in 1..Len(left) : KeyOn(left[i], on) # KeyOn(r, on))
    IN  LeftMerge(left, right, on, rcols)
        \o [j \in 1..Len(alone) |->
               [c \in Range(on) \cup rcols |-> alone[j][c]] @@ NullCells(lcols)]

\* ------------------------------------------------------------------------
\* Bank of Canada series (pipeline.py, fact_core_province_stress.py)
\* ------------------------------------------------------------------------

\* download_boc_series_json after the fetch: one row per observation
\* [d |-> text, v |-> text] (v = "" when the series is absent from the
\* observation), date and value coerced, undated rows dropped, sorted by date
download_boc_series_json(observations) ==
    LET rows == [i \in 1..Len(observations) |->
                    [date  |-> ToDatetime(observations[i].d),
                     value |-> ToNumeric(observations[i].v)]]
        kept == SelectSeq(rows, LAMBDA r : r.date # NaT)
    IN  SortRows(kept, [i \in 1..Len(kept), j \in 1..Len(kept) |->
                           TsLess(kept[i].date, kept[j].date)])

\* prime["Quarter"] = prime["date"].dt.to_period("Q").dt.to_timestamp()
WithQuarter(series) ==
    [i \in 1..Len(series) |-> series[i] @@ [Quarter |-> QuarterStart(series[i].date)]]

\* .groupby("Quarter", as_index=False)[series].last()
QuarterEnd(series, name) == GroupByQ(WithQuarter(series), "value", "last", name)

CellAt(rows, q, col) ==
    IF \E i \in 1..Len(rows) : rows[i].Quarter = q
    THEN rows[CHOOSE i \in 1..Len(rows) : rows[i].Quarter = q][col]
    ELSE NaN

\* rates_q: the two quarter-end tables outer-merged on Quarter (each holds
\* one row per quarter), sorted by Quarter
RatesQ(prime, mort5) ==
    LET a  == QuarterEnd(prime, "PrimeRate_QEnd_Pct")
        b  == QuarterEnd(mort5, "Mortgage5YPosted_QEnd_Pct")
        ks == SortQuarters(KeysQ(a) \cup KeysQ(b))
    IN  [i \in 1..Len(ks) |->
            [Quarter |-> ks[i],
             PrimeRate_QEnd_Pct |-> CellAt(a, ks[i], "PrimeRate_QEnd_Pct"),
             Mortgage5YPosted_QEnd_Pct |-> CellAt(b, ks[i], "Mortgage5YPosted_QEnd_Pct")]]

\* ------------------------------------------------------------------------
\* CPI: monthly -> quarterly average, year-over-year
\* ------------------------------------------------------------------------

prod_col == "Products and product groups"

CPI_BASE == "2002=100"

CPI_ALL_ITEMS_LABEL == "All-items"

\* Province of a row: GEO itself in pipeline.py, str(GEO).strip() in
\* fact_core_province_stress.py
ProvinceOf(s, r) == IF s = "fact_core" THEN Strip(AsStr(r.GEO)) ELSE r.GEO

\* cpi with Month, Quarter (and Province) added, VALUE numeric
CpiRows(s, rows) ==
    [i \in 1..Len(rows) |->
        [GEO      |-> rows[i].GEO,
         UOM      |-> rows[i].UOM,
         product  |-> rows[i][prod_col],
         Province |-> ProvinceOf(s, rows[i]),
         Quarter  |-> QuarterStart(to_month_start(rows[i].REF_DATE)),
         VALUE    |-> ToNumeric(rows[i].VALUE)]]

CPI_SHELTER_LABELS == {"Shelter"}

\* cpi_all / cpi_shel: the rows of the given products, base 2002=100, GEO
\* other than Canada
CpiOf(s, rows, products) ==
    SelectSeq(CpiRows(s, rows),
              LAMBDA r : /\ r.product \in products
                         /\ r.UOM = CPI_BASE
                         /\ r.GEO # "Canada")

\* The cells of one province's rows up to row i, in row order
SeriesUpTo(rows, i, col) ==
    GroupCells(SubSeq(rows, 1, i), <<"Province">>, <<rows[i].Province>>, col)

\* Series.ffill(): the last non-null cell so far
Padded(cells) == IF IsNull(cells[Len(cells)]) THEN GroupLast(cells) ELSE cells[Len(cells)]

\* Series.pct_change(periods) at the last cell of a series: the cell against
\* the cell periods ROWS earlier.  pads: the pandas build forward-fills
\* nulls first (the default fill_method="pad" of pandas < 3).
pct_change(cells, periods, pads) ==
    LET n     == Len(cells)
        at(j) == IF pads THEN Padded(SubSeq(cells, 1, j)) ELSE cells[j]
        prev  == IF n > periods THEN at(n - periods) ELSE NaN
    IN  FSub(FDiv(at(n), prev), Num(1))

\* groupby("Province")[col].pct_change(4) * 100 at row i of a table sorted
\* by (Province, Quarter): the series is the province's rows up to row i
PctChange4(rows, i, col, pads) ==
    FMul(pct_change(SeriesUpTo(rows, i, col), 4, pads), Num(100))

\* Quarterly mean per (Province, Quarter) and its year-over-year
CpiQuarterly(rows, avg, yoy, pads) ==
    LET q == GroupByPQ(rows, "VALUE", "mean", avg)
    IN  [i \in 1..Len(q) |-> q[i] @@ (yoy :> PctChange4(q, i, avg, pads))]

\* cpi_q (pipeline.py) / cpi_all_q (fact_core)
CpiQ(s, rows, pads) ==
    IF s = "fact_core"
    THEN CpiQuarterly(CpiOf(s, rows, {CPI_ALL_ITEMS_LABEL}),
                      "CPI_AllItems_QAvg_Index_2002eq100", "CPI_AllItems_YoY_Pct", pads)
    ELSE CpiQuarterly(CpiOf(s, rows, {CPI_ALL_ITEMS_LABEL}),
                      "CPI_QAvg", "CPI_YoY_Pct", pads)

\* cpi_shel_q (fact_core): empty when no shelter row passes the filters
CpiShelQ(s, rows, pads) ==
    CpiQuarterly(CpiOf(s, rows, CPI_SHELTER_LABELS),
                 "CPI_Shelter_QAvg_Index_2002eq100", "CPI_Shelter_YoY_Pct", pads)

\* ------------------------------------------------------------------------
\* Unemployment: monthly -> quarterly average
\* ------------------------------------------------------------------------

\* lfs_col: the exact name, else the first column containing it; "" is None
lfs_col(df) ==
    IF HasCol(df, "Labour force characteristics")
    THEN "Labour force characteristics"
    ELSE find_col(df, "labour force characteristics")

UNEMP_OPTIONAL_FILTERS ==
    [c \in {"Sex", "Age group", "Data type", "UOM"} |->
        CASE c = "Sex" -> "Both sexes"
          [] c = "Age group" -> "15 years and over"
          [] c = "Data type" -> "Seasonally adjusted"
          [] c = "UOM" -> "Percent"]

\* tmp: the unemployment-rate rows passing each optional filter whose column
\* the table has, GEO other than Canada
UnempRows(s, df, lfs) ==
    LET keep(r) ==
            /\ r[lfs] = "Unemployment rate"
            /\ \A c \in DOMAIN UNEMP_OPTIONAL_FILTERS :
                   HasCol(df, c) => r[c] = UNEMP_OPTIONAL_FILTERS[c]
            /\ r.GEO # "Canada"
        sel == SelectSeq(df.rows, keep)
    IN  [i \in 1..Len(sel) |->
            [Province |-> ProvinceOf(s, sel[i]),
             Quarter  |-> QuarterStart(to_month_start(sel[i].REF_DATE)),
             VALUE    |-> ToNumeric(sel[i].VALUE)]]

UnempCol(s) == IF s = "fact_core" THEN "Unemployment_QAvg_Pct" ELSE "Unemployment_QAvg"

UnempQ(s, df, lfs) ==
    GroupByPQ(UnempRows(s, df, lfs), "VALUE", "mean", UnempCol(s))

\* ------------------------------------------------------------------------
\* Label/Dimension Resolver (income)
\* ------------------------------------------------------------------------

candidate_concept_cols(s) ==
    IF s = "fact_core"
    THEN <<"Income, consumption and saving", "Income",
           "Household sector transactions", "Estimates">>
    ELSE <<"Household sector transactions", "Household economic accounts",
           "Estimates", "Income, consumption and saving", "Income">>

DISPOSABLE_LABELS ==
    <<"Disposable income", "Household disposable income",
      "Disposable income, households">>

\* next((x for x in xs if x in S), None); "" is None
FirstOf(xs, S) ==
    IF \E i \in 1..Len(xs) : xs[i] \in S
    THEN xs[CHOOSE i \in 1..Len(xs) : xs[i] \in S /\ \A j \in 1..(i - 1) : xs[j] \notin S]
    ELSE ""

\* a or b
OrElse(a, b) == IF a # "" THEN a ELSE b

\* The fallback taken as the first column holding either keyword
concept_col_any(s, df) ==
    LET c   == FirstOf(candidate_concept_cols(s), Range(df.cols))
        hit == {i \in 1..Len(df.cols) :
                   \/ Contains(Lower(df.cols[i]), "income")
                   \/ Contains(Lower(df.cols[i]), "transactions")}
    IN  IF c # "" THEN c
        ELSE IF hit = {} THEN ""
        ELSE df.cols[CHOOSE i \in hit : \A j \in hit : i <= j]

\* concept_col: the first candidate that is a column, else the fallback
\* find_col(keyword 1) or find_col(keyword 2); "" is None
concept_col_of(s, df) ==
    LET c == FirstOf(candidate_concept_cols(s), Range(df.cols))
    IN  IF c # "" THEN c
        ELSE IF s = "fact_core"
             THEN OrElse(find_col(df, "income"), find_col(df, "transactions"))
             ELSE OrElse(find_col(df, "transactions"), find_col(df, "income"))

\* income_prov / inc: the rows label resolution looks at
IncomeProv(s, df) ==
    SelectSeq(df.rows,
              LAMBDA r : /\ r.GEO # "Canada"
                         /\ s = "fact_core" =>
                                /\ r.UOM = "Dollars"
                                /\ Lower(AsStr(r.SCALAR_FACTOR)) = "millions")

\* avail = set(income_prov[concept_col].dropna().unique())
Avail(s, df, col) ==
    LET rows == IncomeProv(s, df) IN {rows[i][col] : i \in 1..Len(rows)} \ {""}

\* The last target label that is available, not the first
label_of_last(avail) ==
    FirstOf([k \in 1..Len(DISPOSABLE_LABELS) |->
                DISPOSABLE_LABELS[Len(DISPOSABLE_LABELS) + 1 - k]], avail)

\* label = next((x for x in DISPOSABLE_LABELS if x in avail), None)
label_of(avail) == FirstOf(DISPOSABLE_LABELS, avail)

SampleLimit(s) == IF s = "fact_core" THEN 60 ELSE 40

\* sorted(avail)[:limit]
SampleOf(s, avail) ==
    LET sorted == SortStrings(avail)
    IN  SubSeq(sorted, 1, IF Len(sorted) < SampleLimit(s) THEN Len(sorted) ELSE SampleLimit(s))

\* ------------------------------------------------------------------------
\* Unit Normalizer and the quarterly income total
\* ------------------------------------------------------------------------

\* SCALAR_MAP of script s (fact_core_province_stress.py holds the plural
\* keys, mortgage_amount_canada_housing.py the singular ones as well);
\* 0 stands for "not a key"
SCALAR_MAP(s, text) ==
    CASE text = "units" -> 1
      [] text = "thousands" -> 1000
      [] text = "millions" -> 1000000
      [] text = "billions" -> 1000000000
      [] s = "mortgage" /\ text = "unit" -> 1
      [] s = "mortgage" /\ text = "thousand" -> 1000
      [] s = "mortgage" /\ text = "million" -> 1000000
      [] s = "mortgage" /\ text = "billion" -> 1000000000
      [] OTHER -> 0

\* The multiplier looked up without lower-casing the text
ScalarMultExact(s, cell) ==
    LET m == SCALAR_MAP(s, AsStr(cell)) IN IF m = 0 THEN Num(1) ELSE Num(m)

\* mult = SCALAR_FACTOR.astype(str).str.lower().map(SCALAR_MAP).fillna(1)
ScalarMult(s, cell) ==
    LET m == SCALAR_MAP(s, Lower(AsStr(cell))) IN IF m = 0 THEN Num(1) ELSE Num(m)

\* apply_scalar(df, value_col): value_col_CAD = value_col * mult, per row
apply_scalar(value, scalar_factor) ==
    FMul(value, ScalarMult("fact_core", scalar_factor))

\* The rows of the resolved label with Province and Quarter, VALUE numeric;
\* in fact_core also the apply_scalar column
IncomeRows(s, df, col, lab) ==
    LET sel == SelectSeq(IncomeProv(s, df), LAMBDA r : r[col] = lab)
    IN  [i \in 1..Len(sel) |->
            [Province |-> ProvinceOf(s, sel[i]),
             Quarter  |-> to_quarter_start_from_date(sel[i].REF_DATE),
             VALUE    |-> ToNumeric(sel[i].VALUE)]
            @@ IF s = "fact_core"
               THEN [VALUE_CAD |-> apply_scalar(ToNumeric(sel[i].VALUE),
                                                sel[i].SCALAR_FACTOR)]
               ELSE <<>>]

\* income_q: groupby(["Province","Quarter"]).sum() of the selected rows.
\* pipeline.py keeps the one total DisposableIncome_Q; fact_core keeps the
\* total of VALUE (DisposableIncome_Q_MillionCAD) and of the _CAD column.
IncomeQ(s, df, col, lab) ==
    LET rows == IncomeRows(s, df, col, lab)
    IN  IF s = "fact_core"
        THEN LET m == GroupByPQ(rows, "VALUE", "sum", "DisposableIncome_Q_MillionCAD")
                 c == GroupByPQ(rows, "VALUE_CAD", "sum", "DisposableIncome_Q_CAD")
             IN  [i \in 1..Len(m) |-> m[i] @@ c[i]]
        ELSE GroupByPQ(rows, "VALUE", "sum", "DisposableIncome_Q")

\* assert_unique_key(df, ["Province","Quarter"], name): the duplicate count
\* that makes it raise when positive
assert_unique_key(rows) == duplicated(rows, <<"Province", "Quarter">>)

\* ------------------------------------------------------------------------
\* Non-bank mortgages (pipeline.py)
\* ------------------------------------------------------------------------

\* obj_cols: the columns pandas holds as text (dtype object): some cell is
\* neither empty nor a number.  VALUE is numeric after numeric_value.
obj_cols(df) ==
    {c \in Range(df.cols) \ {"VALUE"} :
        \E i \in 1..Len(df.rows) : df.rows[i][c] # "" /\ IsNull(ToNumeric(df.rows[i][c]))}

\* row_contains_any(row, term): term in the lower-cased text cells of the
\* row joined by blanks
row_contains_any(df, row, term) ==
    \E c \in obj_cols(df) : Contains(Lower(AsStr(row[c])), Lower(term))

\* mort_q: rows outside Canada mentioning "outstanding", summed per key
MortQ(df) ==
    LET sel == SelectSeq(df.rows,
                         LAMBDA r : r.GEO # "Canada" /\ row_contains_any(df, r, "outstanding"))
        rows == [i \in 1..Len(sel) |->
                    [Province |-> sel[i].GEO,
                     Quarter  |-> to_quarter_start_from_date(sel[i].REF_DATE),
                     VALUE    |-> ToNumeric(sel[i].VALUE)]]
    IN  GroupByPQ(rows, "VALUE", "sum", "NonBankMortgagesOutstanding_Q")

\* ------------------------------------------------------------------------
\* Fact Join Engine
\* ------------------------------------------------------------------------

RowLessPQ(a, b) == KeyLessPQ(KeyPQ(a), KeyPQ(b))

CpiCols(s) ==
    IF s = "fact_core"
    THEN {"CPI_AllItems_QAvg_Index_2002eq100", "CPI_AllItems_YoY_Pct"}
    ELSE {"CPI_QAvg", "CPI_YoY_Pct"}

ShelCols == {"CPI_Shelter_QAvg_Index_2002eq100", "CPI_Shelter_YoY_Pct"}

MortCols == {"NonBankMortgagesOutstanding_Q"}

RateCols == {"PrimeRate_QEnd_Pct", "Mortgage5YPosted_QEnd_Pct"}

\* left.merge(right, on=<key>, how="inner"): the left rows a right row matches
InnerMerge(left, right, on, rcols) ==
    Flatten([i \in 1..Len(left) |->
        LET m == SelectSeq(right, LAMBDA r : KeyOn(r, on) = KeyOn(left[i], on))
        IN  [j \in 1..Len(m) |-> left[i] @@ [c \in rcols |-> m[j][c]]]])

\* The fact join with how="inner" in place of how="left"
FactJoinInner(base, others, rates) ==
    LET step[k \in 0..Len(others)] ==
            IF k = 0 THEN base
            ELSE InnerMerge(step[k - 1], others[k].rows, <<"Province", "Quarter">>,
                            others[k].cols)
        all == InnerMerge(step[Len(others)], rates, <<"Quarter">>, RateCols)
    IN  SortRows(all, [i \in 1..Len(all), j \in 1..Len(all) |-> RowLessPQ(all[i], all[j])])

\* The fact join with the rate table attached row by row, not on Quarter
FactJoinRatesByRow(base, others, rates) ==
    LET step[k \in 0..Len(others)] ==
            IF k = 0 THEN base
            ELSE LeftMerge(step[k - 1], others[k].rows, <<"Province", "Quarter">>,
                           others[k].cols)
        all == [i \in 1..Len(step[Len(others)]) |->
                   step[Len(others)][i]
                   @@ IF i <= Len(rates) THEN [c \in RateCols |-> rates[i][c]]
                      ELSE NullCells(RateCols)]
    IN  SortRows(all, [i \in 1..Len(all), j \in 1..Len(all) |-> RowLessPQ(all[i], all[j])])

\* fact: income_q left-merged with the quarterly tables on (Province,
\* Quarter) and with rates_q on Quarter, sorted by (Province, Quarter).
\* others: the per-province tables in merge order, each with its columns.
FactJoin(base, others, rates) ==
    LET step[k \in 0..Len(others)] ==
            IF k = 0 THEN base
            ELSE LeftMerge(step[k - 1], others[k].rows, <<"Province", "Quarter">>,
                           others[k].cols)
        all == LeftMerge(step[Len(others)], rates, <<"Quarter">>, RateCols)
    IN  SortRows(all, [i \in 1..Len(all), j \in 1..Len(all) |-> RowLessPQ(all[i], all[j])])

\* InterestCostProxy_Q and InterestServiceRatioProxy_Q, plain float division
Derived(row) ==
    LET cost == FMul(row.NonBankMortgagesOutstanding_Q,
                     FDiv(row.Mortgage5YPosted_QEnd_Pct, Num(100)))
    IN  row @@ [InterestCostProxy_Q |-> cost,
                InterestServiceRatioProxy_Q |-> FDiv(cost, row.DisposableIncome_Q)]

\* ------------------------------------------------------------------------
\* State
\* ------------------------------------------------------------------------

VARIABLES
    script,        \* the script that runs
    pc,            \* where the run stands
    err,           \* the exception that ended the run, "" when none
    diag,          \* what the exception's message lists (columns, sample)
    files,         \* the output files written so far
    pads,          \* the pandas build forward-fills in pct_change
    income_raw, cpi_raw, unemp_raw, mort_nb_raw,   \* downloaded tables
    prime_json, mort5_json,                        \* downloaded observations
    rates_q, cpi_q, cpi_shel_q, unemp_q,
    concept_col, label, income_q, mort_q, fact,
    raw,           \* the one download of the three single-table scripts
    frame,         \* df of the dsr and mortgage scripts as it is narrowed
    income, interest, dsr, merged,                 \* dsr script (merged: out)
    components_col, monthly, quarterly,            \* mortgage script
    series_df, obs_df, out4                        \* interest_Rate script

inputs == <<script, pads, income_raw, cpi_raw, unemp_raw, mort_nb_raw,
            prime_json, mort5_json, raw>>

\* What pipeline.py and fact_core_province_stress.py compute
facts == <<rates_q, cpi_q, cpi_shel_q, unemp_q, concept_col, label, income_q,
           mort_q, fact>>

\* What the three single-table scripts compute
singles == <<frame, income, interest, dsr, merged, components_col, monthly,
             quarterly, series_df, obs_df, out4>>

vars == <<script, pc, err, diag, files, pads, income_raw, cpi_raw, unemp_raw,
          mort_nb_raw, prime_json, mort5_json, rates_q, cpi_q, cpi_shel_q,
          unemp_q, concept_col, label, income_q, mort_q, fact, raw, frame,
          income, interest, dsr, merged, components_col, monthly, quarterly,
          series_df, obs_df, out4>>

FactScripts == {"pipeline", "fact_core"}

Scripts == FactScripts \cup {"dsr", "mortgage", "interest_Rate"}

\* OUT_FILE of pipeline.py, fact_core_province_stress.py and
\* household_interest_income_dsr.py
OUT_FILE(s) ==
    CASE s = "fact_core" -> "output/fact_core_province_quarter.csv"
      [] s = "pipeline" -> "output/fact_household_stress_quarterly.csv"
      [] s = "dsr" -> "output/3610022601_household_dsr_interestonly_quarterly.csv"

\* The outcome of a stage: its value, or the exception it raises
Ok(val) == [err |-> "", diag |-> <<>>, val |-> val]

Raise(kind, info) == [err |-> kind, diag |-> info, val |-> <<>>]

\* df[c] for the first c of cols the table lacks raises KeyError
MissingCol(df, cols) == FirstOf(cols, Range(cols) \ Range(df.cols))

\* The run moves on although the stage raised
StepOn(next, res) ==
    /\ err' = res.err
    /\ diag' = res.diag
    /\ pc' = next

\* The run moves on to stage next, or ends in the exception
Step(next, res) ==
    /\ err' = res.err
    /\ diag' = res.diag
    /\ pc' = IF res.err = "" THEN next ELSE "aborted"

\* The table with the columns the script has added to it so far
WithCols(df, added) == [df EXCEPT !.cols = @ \o added]

Added(s, with_month) ==
    (IF with_month THEN <<"Month">> ELSE <<>>) \o <<"Quarter">>
    \o (IF s = "fact_core" THEN <<"Province">> ELSE <<>>)

\* ------------------------------------------------------------------------
\* pipeline.py and fact_core_province_stress.py, stage by stage
\* ------------------------------------------------------------------------

\* The stage that follows the download
FirstStage(s) ==
    CASE s \in FactScripts -> "rates"
      [] s = "dsr" -> "require"
      [] s = "mortgage" -> "normalize"
      [] s = "interest_Rate" -> "parse"

\* download_statcan_full_table / requests.get: raise_for_status or the
\* missing data CSV ends the run; the fetch itself is outside the model
Download ==
    /\ pc = "download"
    /\ \E ok \in BOOLEAN :
          Step(FirstStage(script), IF ok THEN Ok(<<>>) ELSE Raise("FetchError", <<>>))
    /\ UNCHANGED <<inputs, singles, facts, files>>

\* pd.DataFrame([]) has no "date" column: df["date"] raises KeyError
RatesStage ==
    IF prime_json = <<>> \/ mort5_json = <<>> THEN Raise("KeyError", <<"date">>)
    ELSE Ok(RatesQ(download_boc_series_json(prime_json),
                   download_boc_series_json(mort5_json)))

Rates ==
    /\ script \in FactScripts /\ pc = "rates"
    /\ LET res == RatesStage
       IN  /\ Step("cpi", res)
           /\ rates_q' = res.val
    /\ UNCHANGED <<inputs, singles, files, cpi_q, cpi_shel_q, unemp_q, concept_col,
                   label, income_q, mort_q, fact>>

\* The columns the CPI section reads after the product column, in order
CpiLate(s) ==
    IF s = "fact_core" THEN <<"REF_DATE", "GEO", "UOM">> ELSE <<"REF_DATE", "UOM", "GEO">>

CpiStage ==
    IF ~HasCol(cpi_raw, "VALUE") THEN Raise("KeyError", <<"VALUE">>)
    ELSE IF ~HasCol(cpi_raw, prod_col) THEN Raise("ColumnNotFound", cpi_raw.cols)
    ELSE IF MissingCol(cpi_raw, CpiLate(script)) # ""
         THEN Raise("KeyError", <<MissingCol(cpi_raw, CpiLate(script))>>)
    ELSE LET q == CpiQ(script, cpi_raw.rows, pads)
         IN  IF script = "pipeline" /\ assert_unique_key(q) > 0
             THEN Raise("DuplicateKey", <<"CPI_Q">>)
             ELSE Ok(q)

Cpi ==
    /\ script \in FactScripts /\ pc = "cpi"
    /\ LET res == CpiStage
       IN  /\ Step("unemp", res)
           /\ cpi_q' = res.val
           /\ cpi_shel_q' = IF res.err = "" /\ script = "fact_core"
                            THEN CpiShelQ(script, cpi_raw.rows, pads) ELSE <<>>
    /\ UNCHANGED <<inputs, singles, files, rates_q, unemp_q, concept_col, label,
                   income_q, mort_q, fact>>

UnempStage ==
    LET early == IF script = "fact_core" THEN <<"VALUE", "REF_DATE", "GEO">>
                 ELSE <<"VALUE", "REF_DATE">>
        df    == WithCols(unemp_raw, Added(script, TRUE))
    IN  IF MissingCol(unemp_raw, early) # ""
        THEN Raise("KeyError", <<MissingCol(unemp_raw, early)>>)
        ELSE IF lfs_col(df) = "" THEN Raise("ColumnNotFound", df.cols)
        ELSE IF ~HasCol(unemp_raw, "GEO") THEN Raise("KeyError", <<"GEO">>)
        ELSE LET q == UnempQ(script, unemp_raw, lfs_col(df))
             IN  IF script = "pipeline" /\ assert_unique_key(q) > 0
                 THEN Raise("DuplicateKey", <<"UNEMP_Q">>)
                 ELSE Ok(q)

Unemp ==
    /\ script \in FactScripts /\ pc = "unemp"
    /\ LET res == UnempStage
       IN  /\ Step("income_col", res)
           /\ unemp_q' = res.val
    /\ UNCHANGED <<inputs, singles, files, rates_q, cpi_q, cpi_shel_q, concept_col,
                   label, income_q, mort_q, fact>>

\* Column resolution: ValueError listing the columns when none is found
IncomeColStage ==
    LET early == IF script = "fact_core" THEN <<"VALUE", "REF_DATE", "GEO">>
                 ELSE <<"VALUE", "REF_DATE">>
        df    == WithCols(income_raw, Added(script, FALSE))
    IN  IF MissingCol(income_raw, early) # ""
        THEN Raise("KeyError", <<MissingCol(income_raw, early)>>)
        ELSE LET c == concept_col_of(script, df)
             IN  IF c = "" THEN Raise("ColumnNotFound", df.cols) ELSE Ok(c)

IncomeCol ==
    /\ script \in FactScripts /\ pc = "income_col"
    /\ LET res == IncomeColStage
       IN  /\ Step("income_label", res)
           /\ concept_col' = IF res.err = "" THEN res.val ELSE ""
    /\ UNCHANGED <<inputs, singles, files, rates_q, cpi_q, cpi_shel_q, unemp_q, label,
                   income_q, mort_q, fact>>

\* Label resolution: ValueError carrying the sample when no label is found
IncomeLabelStage ==
    LET late == IF script = "fact_core" THEN <<"UOM", "SCALAR_FACTOR">> ELSE <<"GEO">>
    IN  IF MissingCol(income_raw, late) # ""
        THEN Raise("KeyError", <<MissingCol(income_raw, late)>>)
        ELSE LET avail == Avail(script, income_raw, concept_col)
             IN  IF label_of(avail) = ""
                 THEN Raise("LabelNotFound", SampleOf(script, avail))
                 ELSE Ok(label_of(avail))

IncomeLabel ==
    /\ script \in FactScripts /\ pc = "income_label"
    /\ LET res == IncomeLabelStage
       IN  /\ Step("income_q", res)
           /\ label' = IF res.err = "" THEN res.val ELSE ""
    /\ UNCHANGED <<inputs, singles, files, rates_q, cpi_q, cpi_shel_q, unemp_q,
                   concept_col, income_q, mort_q, fact>>

\* The quarterly totals; pipeline.py then asserts the key unique
IncomeAggStage ==
    LET q == IncomeQ(script, income_raw, concept_col, label)
    IN  IF script = "pipeline" /\ assert_unique_key(q) > 0
        THEN Raise("DuplicateKey", <<"INCOME_Q">>)
        ELSE Ok(q)

IncomeAgg ==
    /\ script \in FactScripts /\ pc = "income_q"
    /\ LET res == IncomeAggStage
       IN  /\ Step(IF script = "fact_core" THEN "merge" ELSE "mort", res)
           /\ income_q' = res.val
    /\ UNCHANGED <<inputs, singles, files, rates_q, cpi_q, cpi_shel_q, unemp_q,
                   concept_col, label, mort_q, fact>>

MortStage ==
    IF MissingCol(mort_nb_raw, <<"VALUE", "REF_DATE", "GEO">>) # ""
    THEN Raise("KeyError", <<MissingCol(mort_nb_raw, <<"VALUE", "REF_DATE", "GEO">>)>>)
    ELSE LET q == MortQ(mort_nb_raw)
         IN  IF assert_unique_key(q) > 0 THEN Raise("DuplicateKey", <<"MORT_Q">>)
             ELSE Ok(q)

Mort ==
    /\ script = "pipeline" /\ pc = "mort"
    /\ LET res == MortStage
       IN  /\ Step("merge", res)
           /\ mort_q' = res.val
    /\ UNCHANGED <<inputs, singles, files, rates_q, cpi_q, cpi_shel_q, unemp_q,
                   concept_col, label, income_q, fact>>

\* The per-province tables in merge order
Others(s) ==
    IF s = "fact_core"
    THEN <<[rows |-> cpi_q, cols |-> CpiCols(s)],
           [rows |-> cpi_shel_q, cols |-> ShelCols],
           [rows |-> unemp_q, cols |-> {UnempCol(s)}]>>
    ELSE <<[rows |-> cpi_q, cols |-> CpiCols(s)],
           [rows |-> unemp_q, cols |-> {UnempCol(s)}],
           [rows |-> mort_q, cols |-> MortCols]>>

Merge ==
    /\ script \in FactScripts /\ pc = "merge"
    /\ fact' = FactJoin(income_q, Others(script), rates_q)
    /\ pc' = IF script = "fact_core" THEN "save" ELSE "derive"
    /\ UNCHANGED <<inputs, singles, err, diag, files, rates_q, cpi_q, cpi_shel_q,
                   unemp_q, concept_col, label, income_q, mort_q>>

Derive ==
    /\ script = "pipeline" /\ pc = "derive"
    /\ fact' = [i \in 1..Len(fact) |-> Derived(fact[i])]
    /\ pc' = "save"
    /\ UNCHANGED <<inputs, singles, err, diag, files, rates_q, cpi_q, cpi_shel_q,
                   unemp_q, concept_col, label, income_q, mort_q>>

\* fact.to_csv(OUT_FILE): the one write of the run
Save ==
    /\ script \in FactScripts /\ pc = "save"
    /\ files' = files \cup {OUT_FILE(script)}
    /\ pc' = "done"
    /\ UNCHANGED <<inputs, singles, err, diag, rates_q, cpi_q, cpi_shel_q, unemp_q,
                   concept_col, label, income_q, mort_q, fact>>

NextFact ==
    \/ Rates \/ Cpi \/ Unemp \/ IncomeCol \/ IncomeLabel
    \/ IncomeAgg \/ Mort \/ Merge \/ Derive \/ Save

\* ------------------------------------------------------------------------
\* household_interest_income_dsr.py, stage by stage.  os.makedirs creates
\* the output directory, no file.
\* ------------------------------------------------------------------------

required_cols == {"REF_DATE", "GEO", "VALUE", "UOM", "SCALAR_FACTOR", "Estimates"}

HOUSEHOLD_INCOME_LABEL == "Household income"

INTEREST_PAID_LABEL == "Interest paid"

DSR_LABEL == "Equals: debt service ratio, interest only"

\* The value columns of the three series
DsrCols ==
    <<"HouseholdIncome_(Dollars_millions)", "InterestPaid_(Dollars_millions)",
      "DebtServiceRatio_InterestOnly_(ratio_units)">>

\* missing = required_cols - set(df.columns); raise ValueError if missing
DsrRequire ==
    /\ script = "dsr" /\ pc = "require"
    /\ Step("parse", IF required_cols \ Range(raw.cols) # {}
                     THEN Raise("MissingColumns", raw.cols) ELSE Ok(<<>>))
    /\ UNCHANGED <<inputs, singles, facts, files>>

\* df["VALUE"] = pd.to_numeric(...); df["Period_Quarter"] =
\* parse_quarter(df["REF_DATE"]): one cell PeriodIndex rejects raises
DsrParseStage ==
    LET p   == [i \in 1..Len(raw.rows) |-> parse_quarter(AsStr(raw.rows[i].REF_DATE))]
        bad == {i \in 1..Len(raw.rows) : ~p[i].ok}
    IN  IF bad # {}
        THEN Raise("DateParseError",
                   <<raw.rows[CHOOSE i \in bad : \A j \in bad : i <= j].REF_DATE>>)
        ELSE Ok([i \in 1..Len(raw.rows) |->
                    [GEO |-> raw.rows[i].GEO, Estimates |-> raw.rows[i].Estimates,
                     UOM |-> raw.rows[i].UOM,
                     SCALAR_FACTOR |-> raw.rows[i].SCALAR_FACTOR,
                     VALUE |-> ToNumeric(raw.rows[i].VALUE),
                     Period_Quarter |-> p[i].ts]])

DsrParse ==
    /\ script = "dsr" /\ pc = "parse"
    /\ LET res == DsrParseStage
       IN  /\ Step("select", res)
           /\ frame' = res.val
    /\ UNCHANGED <<inputs, facts, files, income, interest, dsr, merged,
                   components_col, monthly, quarterly, series_df, obs_df, out4>>

\* enforce_filter(df, estimate_label, uom, scalar_factor)
enforce_filter(df, estimate_label, uom, scalar_factor) ==
    SelectSeq(df, LAMBDA r : /\ r.Estimates = estimate_label
                             /\ r.UOM = uom
                             /\ Lower(AsStr(r.SCALAR_FACTOR)) = Lower(scalar_factor))

\* [["Period_Quarter", "GEO", "VALUE"]].rename(columns={"VALUE": name})
Series3(rows, name) ==
    [i \in 1..Len(rows) |->
        [Period_Quarter |-> rows[i].Period_Quarter, GEO |-> rows[i].GEO]
        @@ (name :> rows[i].VALUE)]

\* The three series, each with its own unit filter
DsrSelect ==
    /\ script = "dsr" /\ pc = "select"
    /\ income' = Series3(enforce_filter(frame, HOUSEHOLD_INCOME_LABEL, "Dollars",
                                        "millions"), DsrCols[1])
    /\ interest' = Series3(enforce_filter(frame, INTEREST_PAID_LABEL, "Dollars",
                                          "millions"), DsrCols[2])
    /\ dsr' = Series3(enforce_filter(frame, DSR_LABEL, "Ratio", "units"), DsrCols[3])
    /\ pc' = "merge"
    /\ UNCHANGED <<inputs, facts, files, err, diag, frame, merged,
                   components_col, monthly, quarterly, series_df, obs_df, out4>>

\* sort_values(["GEO", "Period_Quarter"]): nulls sort last
DsrRowLess(a, b) ==
    \/ a.GEO # "" /\ (b.GEO = "" \/ StrLess(a.GEO, b.GEO))
    \/ /\ a.GEO = b.GEO
       /\ a.Period_Quarter # NaT
       /\ (b.Period_Quarter = NaT \/ TsLess(a.Period_Quarter, b.Period_Quarter))

\* out: the three series outer-merged on (Period_Quarter, GEO) and sorted
DsrOut(a, b, c) ==
    LET on  == <<"Period_Quarter", "GEO">>
        ab  == OuterMerge(a, b, on, {DsrCols[1]}, {DsrCols[2]})
        all == OuterMerge(ab, c, on, {DsrCols[1], DsrCols[2]}, {DsrCols[3]})
    IN  SortRows(all, [i \in 1..Len(all), j \in 1..Len(all) |-> DsrRowLess(all[i], all[j])])

DsrMerge ==
    /\ script = "dsr" /\ pc = "merge"
    /\ merged' = DsrOut(income, interest, dsr)
    /\ pc' = "guard"
    /\ UNCHANGED <<inputs, facts, files, err, diag, frame, income, interest, dsr,
                   components_col, monthly, quarterly, series_df, obs_df, out4>>

\* dups = out.duplicated(["Period_Quarter", "GEO"]).sum(); raise if dups
DsrGuard ==
    /\ script = "dsr" /\ pc = "guard"
    /\ Step("save", IF duplicated(merged, <<"Period_Quarter", "GEO">>) > 0
                    THEN Raise("DuplicateKey", <<"Period_Quarter", "GEO">>)
                    ELSE Ok(<<>>))
    /\ UNCHANGED <<inputs, singles, facts, files>>

\* out.to_csv(OUT_FILE)
DsrSave ==
    /\ script = "dsr" /\ pc = "save"
    /\ files' = files \cup {OUT_FILE(script)}
    /\ pc' = "done"
    /\ UNCHANGED <<inputs, singles, facts, err, diag>>

NextDsr == DsrRequire \/ DsrParse \/ DsrSelect \/ DsrMerge \/ DsrGuard \/ DsrSave

\* ------------------------------------------------------------------------
\* mortgage_amount_canada_housing.py, stage by stage
\* ------------------------------------------------------------------------

START_DATE == Timestamp(2012, 1, 1)

END_DATE == Timestamp(2025, 12, 31)

OUT_MONTHLY == "output/mortgage_outstanding_canada_monthly_2012_2025.csv"

OUT_QUARTERLY == "output/mortgage_outstanding_canada_quarterly_2012_2025.csv"

MONTHLY_CAD == "MortgageOutstanding_Monthly_Value_CAD_(Dollars_units)"

MONTHLY_MILLION == "MortgageOutstanding_Monthly_Value_MillionCAD_(Dollars_millions)"

QAVG_CAD == "MortgageOutstanding_QAvg_CAD_(Dollars_units)"

QAVG_MILLION == "MortgageOutstanding_QAvg_MillionCAD_(Dollars_millions)"

\* find_col_contains(df, text); "" is None
find_col_contains(df, text) == find_col(df, text)

\* VALUE numeric, Month added, the rows with a Month inside the date window
MortgageNormalizeStage ==
    IF MissingCol(raw, <<"VALUE", "REF_DATE">>) # ""
    THEN Raise("KeyError", <<MissingCol(raw, <<"VALUE", "REF_DATE">>)>>)
    ELSE LET rows == [i \in 1..Len(raw.rows) |->
                         [raw.rows[i] EXCEPT !.VALUE = ToNumeric(@)]
                         @@ [Month |-> to_month_start(raw.rows[i].REF_DATE)]]
         IN  Ok(Table(raw.cols \o <<"Month">>,
                      SelectSeq(rows, LAMBDA r : /\ r.Month # NaT
                                                 /\ ~TsLess(r.Month, START_DATE)
                                                 /\ ~TsLess(END_DATE, r.Month))))

MortgageNormalize ==
    /\ script = "mortgage" /\ pc = "normalize"
    /\ LET res == MortgageNormalizeStage
       IN  /\ Step("components", res)
           /\ frame' = res.val
    /\ UNCHANGED <<inputs, facts, files, income, interest, dsr, merged,
                   components_col, monthly, quarterly, series_df, obs_df, out4>>

\* components_col: "Components", else the first column containing
\* "component"; ValueError listing the columns when there is none
MortgageComponents ==
    /\ script = "mortgage" /\ pc = "components"
    /\ LET c == IF HasCol(frame, "Components") THEN "Components"
                ELSE find_col_contains(frame, "component")
       IN  /\ Step("filter", IF c = "" THEN Raise("ColumnNotFound", frame.cols)
                             ELSE Ok(<<>>))
           /\ components_col' = c
    /\ UNCHANGED <<inputs, facts, files, frame, income, interest, dsr, merged,
                   monthly, quarterly, series_df, obs_df, out4>>

timing_col(df) ==
    OrElse(OrElse(find_col_contains(df, "month-end"), find_col_contains(df, "month end")),
           find_col_contains(df, "monthly"))

sa_col(df) ==
    IF HasCol(df, "Seasonal adjustment") THEN "Seasonal adjustment"
    ELSE find_col_contains(df, "seasonal")

\* df[col].astype(str).str.lower().str.contains(text)
CellContains(r, col, text) == Contains(Lower(AsStr(r[col])), text)

\* The Canada rows of the total, at month-end when there is a timing
\* column, the seasonally adjusted ones when any is, in dollars when there
\* is a UOM column
MortgageFiltered(df, comp) ==
    LET canada == SelectSeq(df.rows, LAMBDA r : AsStr(r.GEO) = "Canada")
        total  == SelectSeq(canada, LAMBDA r :
                      CellContains(r, comp, "total outstanding balances"))
        timed  == IF timing_col(df) = "" THEN total
                  ELSE SelectSeq(total, LAMBDA r :
                           CellContains(r, timing_col(df), "month-end"))
        sa     == IF sa_col(df) = "" THEN <<>>
                  ELSE SelectSeq(timed, LAMBDA r :
                           CellContains(r, sa_col(df), "seasonally adjusted"))
        season == IF sa = <<>> THEN timed ELSE sa
    IN  IF HasCol(df, "UOM")
        THEN SelectSeq(season, LAMBDA r : CellContains(r, "UOM", "dollar"))
        ELSE season

MortgageFilter ==
    /\ script = "mortgage" /\ pc = "filter"
    /\ LET res == IF HasCol(frame, "GEO")
                  THEN Ok(Table(frame.cols, MortgageFiltered(frame, components_col)))
                  ELSE Raise("KeyError", <<"GEO">>)
       IN  /\ Step("monthly", res)
           /\ frame' = res.val
    /\ UNCHANGED <<inputs, facts, files, income, interest, dsr, merged,
                   components_col, monthly, quarterly, series_df, obs_df, out4>>

\* The million-CAD column taken from the original VALUE
apply_scalar_to_cad_raw(df, r) ==
    LET mult == IF HasCol(df, "SCALAR_FACTOR")
                THEN ScalarMult("mortgage", r.SCALAR_FACTOR) ELSE Num(1)
    IN  (MONTHLY_CAD :> FMul(r.VALUE, mult)) @@ (MONTHLY_MILLION :> r.VALUE)

\* apply_scalar_to_cad(df, value_col) on one row: the value in dollars and
\* in millions of dollars; mult is 1 when there is no SCALAR_FACTOR column
apply_scalar_to_cad(df, r) ==
    LET mult == IF HasCol(df, "SCALAR_FACTOR")
                THEN ScalarMult("mortgage", r.SCALAR_FACTOR) ELSE Num(1)
        cad  == FMul(r.VALUE, mult)
    IN  (MONTHLY_CAD :> cad) @@ (MONTHLY_MILLION :> FDiv(cad, Num(1000000)))

\* monthly: Month and the two converted columns, sorted by Month
MortgageMonthlyOf(df) ==
    LET rows == [i \in 1..Len(df.rows) |->
                    [Month |-> df.rows[i].Month] @@ apply_scalar_to_cad(df, df.rows[i])]
    IN  SortRows(rows, [i \in 1..Len(rows), j \in 1..Len(rows) |->
                           TsLess(rows[i].Month, rows[j].Month)])

MortgageMonthly ==
    /\ script = "mortgage" /\ pc = "monthly"
    /\ monthly' = MortgageMonthlyOf(frame)
    /\ pc' = "quarterly"
    /\ UNCHANGED <<inputs, facts, files, err, diag, frame, income, interest, dsr,
                   merged, components_col, quarterly, series_df, obs_df, out4>>

\* quarterly: the mean of the months of each quarter and its pct_change(4)
MortgageQuarterlyOf(rows, pad) ==
    LET withq == [i \in 1..Len(rows) |->
                     rows[i] @@ [Quarter |-> QuarterStart(rows[i].Month)]]
        cad   == GroupByQ(withq, MONTHLY_CAD, "mean", QAVG_CAD)
        mil   == GroupByQ(withq, MONTHLY_MILLION, "mean", QAVG_MILLION)
    IN  [i \in 1..Len(cad) |->
            cad[i] @@ mil[i]
            @@ [MortgageOutstanding_YoY_Pct |->
                   FMul(pct_change([j \in 1..i |-> cad[j][QAVG_CAD]], 4, pad),
                        Num(100))]]

MortgageQuarterly ==
    /\ script = "mortgage" /\ pc = "quarterly"
    /\ quarterly' = MortgageQuarterlyOf(monthly, pads)
    /\ pc' = "save_monthly"
    /\ UNCHANGED <<inputs, facts, files, err, diag, frame, income, interest, dsr,
                   merged, components_col, monthly, series_df, obs_df, out4>>

\* monthly.to_csv(OUT_MONTHLY)
MortgageSaveMonthly ==
    /\ script = "mortgage" /\ pc = "save_monthly"
    /\ files' = files \cup {OUT_MONTHLY}
    /\ pc' = "save_quarterly"
    /\ UNCHANGED <<inputs, singles, facts, err, diag>>

\* quarterly.to_csv(OUT_QUARTERLY)
MortgageSaveQuarterly ==
    /\ script = "mortgage" /\ pc = "save_quarterly"
    /\ files' = files \cup {OUT_QUARTERLY}
    /\ pc' = "done"
    /\ UNCHANGED <<inputs, singles, facts, err, diag>>

NextMortgage ==
    \/ MortgageNormalize \/ MortgageComponents \/ MortgageFilter \/ MortgageMonthly
    \/ MortgageQuarterly \/ MortgageSaveMonthly \/ MortgageSaveQuarterly

\* ------------------------------------------------------------------------
\* interest_Rate.py.  The response text is a sequence of lines, each line
\* the sequence of its comma-separated cells.
\* ------------------------------------------------------------------------

OUT_4COLS == "output/boc_mortgage_rates_4cols_simple.csv"

OUT_WIDE == "output/boc_A4_RATES_MORTGAGES_wide.csv"

OUT_SERIES_MAP == "output/boc_A4_RATES_MORTGAGES_series_map.csv"

\* " ".join(s.split()): runs of blanks become one blank, the ends are bare
RECURSIVE Collapse(_)
Collapse(s) ==
    IF Len(s) < 2 THEN s
    ELSE IF SubSeq(s, 1, 2) = "  " THEN Collapse(SubSeq(s, 2, Len(s)))
    ELSE CharAt(s, 1) \o Collapse(SubSeq(s, 2, Len(s)))

\* clean_text(s): str(s) stripped, inner blanks collapsed (the byte-order
\* mark, line breaks and quotes it also removes are not in the alphabet)
clean_text(s) == Collapse(Strip(AsStr(s)))

\* The least index of S, 0 when S is empty
FirstIndex(S) == IF S = {} THEN 0 ELSE CHOOSE i \in S : \A j \in S : i <= j

\* clean_text(ln).strip() == word for a whole line
IsMarker(line, word) == Len(line) = 1 /\ clean_text(line[1]) = word

\* The cell of a line under the column named name of the header line
CellUnder(header, line, name) ==
    LET k == FirstIndex({i \in 1..Len(header) : header[i] = name})
    IN  IF k = 0 \/ k > Len(line) THEN "" ELSE line[k]

\* parse_series_and_observations(raw_text): the series table and the
\* observations table, or the ValueError of the first check that fails
parse_series_and_observations(lines) ==
    LET n              == Len(lines)
        series_idx     == FirstIndex({i \in 1..n : IsMarker(lines[i], "SERIES")})
        obs_marker_idx == FirstIndex({i \in (series_idx + 1)..n :
                                         IsMarker(lines[i], "OBSERVATIONS")})
        block          == SubSeq(lines, series_idx + 1, obs_marker_idx - 1)
        header_idx     == FirstIndex({i \in 1..n :
                              /\ Len(lines[i]) >= 2
                              /\ Lower(Strip(lines[i][1])) = "date"})
        columns        == [k \in 1..Len(lines[header_idx]) |->
                              clean_text(lines[header_idx][k])]
        obs            == [i \in 1..(n - header_idx) |->
                              [k \in 1..Len(columns) |->
                                  IF k > Len(lines[header_idx + i]) THEN ""
                                  ELSE lines[header_idx + i][k]]]
        dated          == [i \in 1..Len(obs) |->
                              [k \in 1..Len(columns) |->
                                  IF columns[k] = "date" THEN ToDatetime(obs[i][k])
                                  ELSE ToNumeric(obs[i][k])]]
        d              == FirstIndex({k \in 1..Len(columns) : columns[k] = "date"})
        kept           == SelectSeq(dated, LAMBDA r : r[d] # NaT)
    IN  IF series_idx = 0 THEN Raise("ParseError", <<"SERIES">>)
        ELSE IF obs_marker_idx = 0 THEN Raise("ParseError", <<"OBSERVATIONS">>)
        ELSE IF block = <<>> THEN Raise("ParseError", <<"EmptyData">>)
        ELSE IF ~({"id", "label", "description"} \subseteq Range(block[1]))
             THEN Raise("ParseError", block[1])
        ELSE IF header_idx = 0 THEN Raise("ParseError", <<"header">>)
        ELSE IF d = 0 THEN Raise("ParseError", columns)
        ELSE Ok([series_df |->
                    [i \in 1..(Len(block) - 1) |->
                        [c \in {"id", "label", "description"} |->
                            clean_text(CellUnder(block[1], block[i + 1], c))]],
                 obs_df |->
                    Table(columns,
                          SortRows(kept, [i \in 1..Len(kept), j \in 1..Len(kept) |->
                                             TsLess(kept[i][d], kept[j][d])]))])

InterestParse ==
    /\ script = "interest_Rate" /\ pc = "parse"
    /\ LET res == parse_series_and_observations(raw)
       IN  /\ Step("save_series_map", res)
           /\ series_df' = IF res.err = "" THEN res.val.series_df ELSE <<>>
           /\ obs_df' = IF res.err = "" THEN res.val.obs_df ELSE <<>>
    /\ UNCHANGED <<inputs, facts, files, frame, income, interest, dsr, merged,
                   components_col, monthly, quarterly, out4>>

\* series_df.to_csv(OUT_SERIES_MAP), before any series is looked up
InterestSaveSeriesMap ==
    /\ script = "interest_Rate" /\ pc = "save_series_map"
    /\ files' = files \cup {OUT_SERIES_MAP}
    /\ pc' = "save_wide"
    /\ UNCHANGED <<inputs, singles, facts, err, diag>>

\* obs_df.to_csv(OUT_WIDE)
InterestSaveWide ==
    /\ script = "interest_Rate" /\ pc = "save_wide"
    /\ files' = files \cup {OUT_WIDE}
    /\ pc' = "build"
    /\ UNCHANGED <<inputs, singles, facts, err, diag>>

\* find_series_id: the id of the first row whose label equals label, whose
\* description contains every token and whose id is an observations column
\* (rows whose description contains "total" first); "" when it raises
find_series_id(series, obs, lab, must_contain) ==
    LET cand  == SelectSeq(series, LAMBDA r :
                     /\ Lower(r.label) = Lower(lab)
                     /\ \A t \in Range(must_contain) :
                            Contains(Lower(r.description), Lower(t))
                     /\ r.id \in Range(obs.cols))
        total == SelectSeq(cand, LAMBDA r : Contains(Lower(r.description), "total"))
    IN  IF cand = <<>> THEN ""
        ELSE IF total # <<>> THEN total[1].id ELSE cand[1].id

base_tokens == <<"mortgages", "outstanding balances", "residential mortgages">>

\* The four lookups of build_4col_output, in its order, with their columns
Wanted ==
    <<[label |-> "Variable rate", token |-> "insured",
       name |-> "Mortgage_Variable_Insured_Pct"],
      [label |-> "Fixed rate, 5 years and over", token |-> "insured",
       name |-> "Mortgage_Fixed_5YPlus_Insured_Pct"],
      [label |-> "Variable rate", token |-> "uninsured",
       name |-> "Mortgage_Variable_Uninsured_Pct"],
      [label |-> "Fixed rate, 5 years and over", token |-> "uninsured",
       name |-> "Mortgage_Fixed_5YPlus_Uninsured_Pct"]>>

\* build_4col_output: the ValueError of the first lookup that fails, else the
\* date and the four looked-up columns; rename maps an id looked up twice to
\* the later of its names
build_4col_output(series, obs) ==
    LET ids    == [k \in 1..Len(Wanted) |->
                      find_series_id(series, obs, Wanted[k].label,
                                     base_tokens \o <<Wanted[k].token>>)]
        failed == FirstIndex({k \in 1..Len(Wanted) : ids[k] = ""})
        later  == [k \in 1..Len(Wanted) |->
                      CHOOSE m \in k..Len(Wanted) :
                          ids[m] = ids[k] /\ \A j \in (m + 1)..Len(Wanted) : ids[j] # ids[k]]
        at(c)  == FirstIndex({k \in 1..Len(obs.cols) : obs.cols[k] = c})
    IN  IF failed # 0
        THEN Raise("SeriesNotFound", <<Wanted[failed].label, Wanted[failed].token>>)
        ELSE Ok(Table(<<"Date">> \o [k \in 1..Len(Wanted) |-> Wanted[later[k]].name],
                      [i \in 1..Len(obs.rows) |->
                          <<obs.rows[i][at("date")]>>
                          \o [k \in 1..Len(Wanted) |-> obs.rows[i][at(ids[k])]]]))

\* try: out4 = build_4col_output(...) except Exception: print(...) -- the
\* exception is caught and the script runs to its end
InterestBuild ==
    /\ script = "interest_Rate" /\ pc = "build"
    /\ LET res == build_4col_output(series_df, obs_df)
       IN  /\ err' = res.err
           /\ diag' = res.diag
           /\ pc' = IF res.err = "" THEN "save_4cols" ELSE "done"
           /\ out4' = res.val
    /\ UNCHANGED <<inputs, facts, files, frame, income, interest, dsr, merged,
                   components_col, monthly, quarterly, series_df, obs_df>>

\* out4.to_csv(OUT_4COLS)
InterestSave4Cols ==
    /\ script = "interest_Rate" /\ pc = "save_4cols"
    /\ files' = files \cup {OUT_4COLS}
    /\ pc' = "done"
    /\ UNCHANGED <<inputs, singles, facts, err, diag>>

NextInterest ==
    \/ InterestParse \/ InterestSaveSeriesMap \/ InterestSaveWide
    \/ InterestBuild \/ InterestSave4Cols

\* ------------------------------------------------------------------------
\* The downloaded tables a run may start from
\* ------------------------------------------------------------------------

MaxIncomeRows == 2

NumQuarters == 6

MaxObs == 3

\* Non-decreasing index tuples: the multisets of up to n rows of a universe
\* of m rows (row order is immaterial to a sum)
Multisets(n, m) ==
    UNION {{t \in [1..k -> 1..m] : \A i \in 1..(k - 1) : t[i] <= t[i + 1]} : k \in 1..n}

IncomeColumns == <<"REF_DATE", "GEO", "Estimates", "UOM", "SCALAR_FACTOR", "VALUE">>

IncomeRow(geo, ref, val, lab) ==
    [REF_DATE |-> ref, GEO |-> geo, Estimates |-> lab, UOM |-> "Dollars",
     SCALAR_FACTOR |-> "millions", VALUE |-> val]

DefaultIncome ==
    Table(IncomeColumns,
          <<IncomeRow("Ontario", "2020Q1", "100", "Disposable income"),
            IncomeRow("Ontario", "2020Q2", "110", "Disposable income"),
            IncomeRow("Alberta", "2020Q1", "50", "Disposable income"),
            IncomeRow("Canada", "2020Q1", "260", "Disposable income")>>)

CpiColumns == <<"REF_DATE", "GEO", "Products and product groups", "UOM", "VALUE">>

CpiRow(geo, ref, val, product) ==
    [REF_DATE |-> ref, GEO |-> geo, UOM |-> "2002=100", VALUE |-> val]
    @@ ("Products and product groups" :> product)

DefaultCpi ==
    Table(CpiColumns,
          <<CpiRow("Ontario", "2020-01", "100", "All-items"),
            CpiRow("Ontario", "2020-02", "102", "All-items"),
            CpiRow("Ontario", "2020-01", "90", "Shelter"),
            CpiRow("Canada", "2020-01", "101", "All-items")>>)

UnempColumns == <<"REF_DATE", "GEO", "Labour force characteristics", "Sex", "UOM", "VALUE">>

UnempRow(geo, ref, val, what, sex) ==
    [REF_DATE |-> ref, GEO |-> geo, Sex |-> sex, UOM |-> "Percent", VALUE |-> val]
    @@ ("Labour force characteristics" :> what)

DefaultUnemp ==
    Table(UnempColumns,
          <<UnempRow("Ontario", "2020-01", "6", "Unemployment rate", "Both sexes"),
            UnempRow("Ontario", "2020-02", "8", "Unemployment rate", "Both sexes"),
            UnempRow("Ontario", "2020-02", "9", "Unemployment rate", "Males"),
            UnempRow("Ontario", "2020-03", "60", "Employment rate", "Both sexes")>>)

MortColumns == <<"REF_DATE", "GEO", "Non-bank mortgages", "UOM", "VALUE">>

MortRow(geo, ref, val, what) ==
    [REF_DATE |-> ref, GEO |-> geo, UOM |-> "Dollars", VALUE |-> val]
    @@ ("Non-bank mortgages" :> what)

DefaultMort ==
    Table(MortColumns,
          <<MortRow("Ontario", "2020Q1", "1000", "Mortgages Outstanding"),
            MortRow("Ontario", "2020Q1", "70", "Mortgages extended"),
            MortRow("Canada", "2020Q1", "5000", "Mortgages Outstanding")>>)

Obs(d, v) == [d |-> d, v |-> v]

DefaultPrime == <<Obs("2020-01-15", "3"), Obs("2020-03-30", "4")>>

DefaultMort5 == <<Obs("2020-01-15", "5"), Obs("2020-03-30", "6")>>

\* A run of script s on the default tables
Default(s) ==
    [script |-> s, pads |-> FALSE, income_raw |-> DefaultIncome,
     cpi_raw |-> DefaultCpi, unemp_raw |-> DefaultUnemp,
     mort_nb_raw |-> DefaultMort, prime_json |-> DefaultPrime,
     mort5_json |-> DefaultMort5, raw |-> <<>>]

\* Income rows of one label: two geographies, two quarters and a period
\* that does not parse, a zero, a number and a cell that is no number
IncomeUniverse ==
    LET geo == <<"Ontario", "Canada">>
        ref == <<"2020Q1", "2020Q2", "unknown">>
        val == <<"0", "100", "x">>
    IN  [i \in 1..18 |->
            IncomeRow(geo[((i - 1) \div 9) + 1], ref[(((i - 1) \div 3) % 3) + 1],
                      val[((i - 1) % 3) + 1], "Disposable income")]

IncomeFamily ==
    {[Default(s) EXCEPT !.income_raw =
          Table(IncomeColumns, [i \in DOMAIN t |-> IncomeUniverse[t[i]]])] :
        s \in FactScripts, t \in Multisets(MaxIncomeRows, Len(IncomeUniverse))}

\* The set of sequences of distinct elements of S of length at most n
Arrangements(S, n) ==
    UNION {{t \in [1..k -> S] : \A i, j \in 1..k : i # j => t[i] # t[j]} : k \in 0..n}

\* CPI: Ontario's quarterly series over NumQuarters quarters, each quarter
\* absent, a number, or (one quarter at most) a cell that is no number;
\* Alberta holds two quarters a year apart
QuarterMonths ==
    <<"2020-01", "2020-04", "2020-07", "2020-10", "2021-01", "2021-04", "2021-07", "2021-10">>

CpiValues == <<"100", "110", "120", "130", "140", "150", "160", "170">>

CpiSeries(f) ==
    LET present == SortInts({k \in DOMAIN f : f[k] # "absent"})
    IN  [i \in 1..Len(present) |->
            CpiRow("Ontario", QuarterMonths[present[i]],
                   IF f[present[i]] = "x" THEN "x" ELSE CpiValues[present[i]],
                   "All-items")]

CpiFamily ==
    {[Default("pipeline") EXCEPT
          !.pads = p,
          !.cpi_raw = Table(CpiColumns,
                            <<CpiRow("Alberta", "2020-01", "200", "All-items"),
                              CpiRow("Alberta", "2021-01", "220", "All-items")>>
                            \o CpiSeries(f))] :
        p \in BOOLEAN,
        f \in {g \in [1..NumQuarters -> {"absent", "value", "x"}] :
                  Cardinality({k \in 1..NumQuarters : g[k] = "x"}) <= 1}}

\* Prime-rate observations: up to MaxObs dates (two in the first quarter),
\* each absent, without a value, or with a value of its own; the response
\* in ascending or descending date order
RateDates == <<"2020-01-15", "2020-03-30", "2020-04-20", "2020-06-29">>

RateValues == <<"3", "4", "5", "6">>

RateSeries(f, ascending) ==
    LET up      == SortInts({k \in DOMAIN f : f[k] # "absent"})
        present == IF ascending THEN up
                   ELSE [i \in 1..Len(up) |-> up[Len(up) + 1 - i]]
    IN  [i \in 1..Len(present) |->
            Obs(RateDates[present[i]],
                IF f[present[i]] = "null" THEN "" ELSE RateValues[present[i]])]

RatesFamily ==
    {[Default(s) EXCEPT !.prime_json = RateSeries(f, asc)] :
        s \in FactScripts, asc \in BOOLEAN,
        f \in [1..MaxObs -> {"absent", "null", "value"}]}

\* Income tables whose dimension columns vary: up to MaxDims of these
\* names, in any order, every one carrying the row's label
MaxDims == 2

DimNames ==
    {"Estimates", "Income", "Household sector transactions",
     "Net INCOME sources", "Transactions type"}

DimRow(dims, geo, ref, val, lab) ==
    [REF_DATE |-> ref, GEO |-> geo, UOM |-> "Dollars",
     SCALAR_FACTOR |-> "millions", VALUE |-> val]
    @@ [c \in Range(dims) |-> lab]

ColumnsFamily ==
    {[Default(s) EXCEPT !.income_raw =
          Table(<<"REF_DATE", "GEO">> \o dims \o <<"UOM", "SCALAR_FACTOR", "VALUE">>,
                <<DimRow(dims, "Ontario", "2020Q1", "100", "Disposable income"),
                  DimRow(dims, "Alberta", "2020Q1", "50", "Disposable income")>>)] :
        s \in FactScripts, dims \in Arrangements(DimNames, MaxDims)}

\* Labels: MaxLabelRows province rows, each with a target label, another
\* label or an empty cell, and a Canada row with the first target label
MaxLabelRows == 2

LabelUniverse ==
    {"Disposable income", "Household disposable income",
     "Disposable income, households", "Other income", ""}

LabelProvinces == <<"Ontario", "Alberta", "Quebec", "Manitoba">>

LabelFamily ==
    {[Default(s) EXCEPT !.income_raw =
          Table(IncomeColumns,
                [i \in 1..MaxLabelRows |->
                    IncomeRow(LabelProvinces[i], "2020Q1", "100", f[i])]
                \o <<IncomeRow("Canada", "2020Q1", "260", "Disposable income")>>)] :
        s \in FactScripts, f \in [1..MaxLabelRows -> LabelUniverse]}

\* More distinct labels than an error message samples, none a target
ManyLabels ==
    {[Default(s) EXCEPT !.income_raw =
          Table(IncomeColumns,
                [i \in 1..(SampleLimit(s) + 5) |->
                    IncomeRow("Ontario", "2020Q1", "100",
                              "Series " \o CharAt(Digits, (i \div 10) + 1)
                                        \o CharAt(Digits, (i % 10) + 1))])] :
        s \in FactScripts}

\* household_interest_income_dsr.py: rows of the three series in their own
\* units, a series in another unit, periods in each spelling, a missing
\* period and one that is no period
MaxDsrRows == 2

DsrColumns == <<"REF_DATE", "GEO", "Estimates", "UOM", "SCALAR_FACTOR", "VALUE">>

DsrRow(ref, geo, lab, uom, sf, val) ==
    [REF_DATE |-> ref, GEO |-> geo, Estimates |-> lab, UOM |-> uom,
     SCALAR_FACTOR |-> sf, VALUE |-> val]

DsrUniverse ==
    <<DsrRow("2020Q1", "Canada", HOUSEHOLD_INCOME_LABEL, "Dollars", "millions", "400"),
      DsrRow("2020Q2", "Canada", HOUSEHOLD_INCOME_LABEL, "Dollars", "Millions", "410"),
      DsrRow("2020 Q1", "Canada", INTEREST_PAID_LABEL, "Dollars", "millions", "20"),
      DsrRow("2020-Q2", "Canada", INTEREST_PAID_LABEL, "Dollars", "millions", "x"),
      DsrRow("2020Q1", "Canada", DSR_LABEL, "Ratio", "units", "5"),
      DsrRow("2020-04-01", "Canada", DSR_LABEL, "Ratio", "units", "6"),
      DsrRow("2020Q1", "Ontario", HOUSEHOLD_INCOME_LABEL, "Dollars", "millions", "150"),
      DsrRow("2020Q1", "Canada", HOUSEHOLD_INCOME_LABEL, "Percent", "units", "3"),
      DsrRow("", "Canada", HOUSEHOLD_INCOME_LABEL, "Dollars", "millions", "7"),
      DsrRow("unknown", "Canada", HOUSEHOLD_INCOME_LABEL, "Dollars", "millions", "8"),
      DsrRow("2020H1", "Canada", "Other estimate", "Dollars", "millions", "9"),
      DsrRow("2020Q1", "", INTEREST_PAID_LABEL, "Dollars", "millions", "1")>>

\* A run of a single-table script on its download
Single(s, download) == [Default("pipeline") EXCEPT !.script = s, !.raw = download]

\* The table without the column named c
Without(df, c) == Table(SelectSeq(df.cols, LAMBDA x : x # c), df.rows)

DsrFamily ==
    {Single("dsr", Table(DsrColumns, [i \in DOMAIN t |-> DsrUniverse[t[i]]])) :
        t \in Multisets(MaxDsrRows, Len(DsrUniverse))}
    \cup {Single("dsr", Without(Table(DsrColumns, SubSeq(DsrUniverse, 1, 1)), c)) :
             c \in Range(DsrColumns)}

\* mortgage_amount_canada_housing.py: the total's month-end series over
\* NumQuarters quarters (the first month of each), each quarter absent, a
\* number, or (one quarter at most) a cell that is no number
MortgageColumns ==
    <<"REF_DATE", "GEO", "Components", "Seasonal adjustment", "UOM",
      "SCALAR_FACTOR", "VALUE">>

MortgageRow(ref, geo, comp, sa, uom, sf, val) ==
    [REF_DATE |-> ref, GEO |-> geo, Components |-> comp, UOM |-> uom,
     SCALAR_FACTOR |-> sf, VALUE |-> val]
    @@ ("Seasonal adjustment" :> sa)

MortgageSeries(f) ==
    LET present == SortInts({k \in DOMAIN f : f[k] # "absent"})
    IN  [i \in 1..Len(present) |->
            MortgageRow(QuarterMonths[present[i]], "Canada",
                        "Total outstanding balances", "Seasonally adjusted",
                        "Dollars", "millions",
                        IF f[present[i]] = "x" THEN "x" ELSE CpiValues[present[i]])]

\* One quarter of the total in each unit spelling, beside rows every filter
\* but one lets through
MortgageUnits ==
    <<"units", "Thousand", "millions", "billion", "dozens", "", "THOUSANDS", "Billions">>

MortgageOthers ==
    <<MortgageRow("2020-01", "Ontario", "Total outstanding balances",
                  "Seasonally adjusted", "Dollars", "millions", "7"),
      MortgageRow("2020-01", "Canada", "Chartered banks", "Seasonally adjusted",
                  "Dollars", "millions", "8"),
      MortgageRow("2020-01", "Canada", "Total outstanding balances",
                  "Seasonally adjusted", "Percent", "millions", "9"),
      MortgageRow("2011-10", "Canada", "Total outstanding balances",
                  "Seasonally adjusted", "Dollars", "millions", "10"),
      MortgageRow("unknown", "Canada", "Total outstanding balances",
                  "Seasonally adjusted", "Dollars", "millions", "11")>>

\* The table with column old named new
Renamed(df, old, new) ==
    Table([i \in 1..Len(df.cols) |-> IF df.cols[i] = old THEN new ELSE df.cols[i]],
          [i \in 1..Len(df.rows) |->
              [c \in (DOMAIN df.rows[i] \ {old}) \cup {new} |->
                  IF c = new THEN df.rows[i][old] ELSE df.rows[i][c]]])

MortgageFamily ==
    LET plain == Table(MortgageColumns,
                       MortgageSeries([k \in 1..5 |-> "value"]) \o MortgageOthers)
    IN  {[Single("mortgage", Table(MortgageColumns, MortgageSeries(f)))
              EXCEPT !.pads = p] :
            p \in BOOLEAN,
            f \in {g \in [1..NumQuarters -> {"absent", "value", "x"}] :
                      Cardinality({k \in 1..NumQuarters : g[k] = "x"}) <= 1}}
        \cup {Single("mortgage",
                     Table(MortgageColumns,
                           <<MortgageRow("2020-01", "Canada", "Total outstanding balances",
                                         sa, "Dollars", MortgageUnits[u], "1")>>
                           \o MortgageOthers)) :
                 u \in 1..Len(MortgageUnits),
                 sa \in {"Seasonally adjusted", "Unadjusted"}}
        \cup {Single("mortgage", Without(plain, c)) : c \in Range(MortgageColumns)}
        \cup {Single("mortgage", Renamed(plain, "Components", c)) :
                 c \in {"Lender components", "Lenders"}}

\* interest_Rate.py: the group response with any of these series listed,
\* every listed id an observations column
SeriesPool ==
    <<<<"V1", "Variable rate",
        "Mortgages - outstanding balances - residential mortgages - insured">>,
      <<"V2", "Fixed rate, 5 years and over",
        "Mortgages - outstanding balances - residential mortgages - insured">>,
      <<"V3", "variable rate",
        "Mortgages - outstanding balances - residential mortgages - uninsured">>,
      <<"V4", "Fixed rate, 5 years and over",
        "Mortgages - Outstanding balances - residential mortgages - uninsured">>,
      <<"V5", "Variable rate",
        "Total mortgages - outstanding balances - residential mortgages - insured">>,
      <<"V6", "Variable rate", "Consumer loans - funds advanced">>>>

\* The response listing the series listed and carrying the columns ids
Response(listed, ids, series_header, date_header) ==
    <<<<"TERMS AND CONDITIONS">>, <<"SERIES">>, series_header>>
    \o [i \in 1..Len(listed) |-> SeriesPool[listed[i]]]
    \o <<<<" OBSERVATIONS ">>,
         <<date_header>> \o [i \in 1..Len(ids) |-> SeriesPool[ids[i]][1]],
         <<"2020-01-09">> \o [i \in 1..Len(ids) |-> "6"],
         <<"2020-01-02">> \o [i \in 1..Len(ids) |-> IF i = 1 THEN "x" ELSE "5"],
         <<"unknown">> \o [i \in 1..Len(ids) |-> "4"]>>

SeriesHeader == <<"id", "label", "description">>

InterestFamily ==
    LET all == SortInts(1..Len(SeriesPool))
    IN  {Single("interest_Rate",
                 Response(SortInts(P), SortInts(P), SeriesHeader, "date")) :
            P \in SUBSET (1..Len(SeriesPool))}
        \cup {Single("interest_Rate", Response(all, SortInts(P), SeriesHeader, "date")) :
                 P \in {(1..Len(SeriesPool)) \ {k} : k \in 1..4}}
        \cup {Single("interest_Rate", r) :
                 r \in {Response(all, all, <<"id", "label">>, "date"),
                        Response(all, all, SeriesHeader, "Date"),
                        Response(all, all, SeriesHeader, "day"),
                        SubSeq(Response(all, all, SeriesHeader, "date"), 3, 12),
                        SubSeq(Response(all, all, SeriesHeader, "date"), 1, 9),
                        <<<<"SERIES">>, <<"OBSERVATIONS">>, <<"date", "V1">>>>}}

\* Income rows of one key whose scalar factor varies row by row: each of
\* MaxScalarRows rows carries one of these texts (an empty cell is a missing
\* scalar factor)
MaxScalarRows == 2

ScalarTexts == <<"millions", "Millions", "thousands", "units", "dozens", "">>

ScalarValues == <<"3", "5", "7">>

ScalarFamily ==
    {[Default(s) EXCEPT !.income_raw =
          Table(IncomeColumns,
                [i \in 1..MaxScalarRows |->
                    [IncomeRow("Ontario", "2020Q1", ScalarValues[i], "Disposable income")
                        EXCEPT !.SCALAR_FACTOR = ScalarTexts[f[i]]]])] :
        s \in FactScripts, f \in [1..MaxScalarRows -> 1..Len(ScalarTexts)]}

\* Quarter tokens: two years, the four quarters, the three separator
\* styles and both cases of the letter, as the period of the one income row
\* of a fact script or of the one row of household_interest_income_dsr.py
PeriodYears == {"2019", "2020"}

PeriodTokens ==
    {y \o sep \o q \o n :
        y \in PeriodYears, sep \in {"", "-", " "}, q \in {"Q", "q"},
        n \in {"1", "2", "3", "4"}}

PeriodFamily ==
    {[Default(s) EXCEPT !.income_raw =
          Table(IncomeColumns,
                <<IncomeRow("Ontario", t, "100", "Disposable income")>>)] :
        s \in FactScripts, t \in PeriodTokens}
    \cup {Single("dsr",
                 Table(DsrColumns,
                       <<DsrRow(t, "Canada", HOUSEHOLD_INCOME_LABEL, "Dollars",
                                "millions", "400")>>)) :
             t \in PeriodTokens}

\* CPI cells: Ontario's MaxMonths monthly rows of one quarter, each VALUE a
\* number or a text that is no plain number
MaxMonths == 3

CellMonths == <<"2020-01", "2020-02", "2020-03", "2020-03-15">>

CpiCells == <<"100", "106", "1,234.5", "x">>

CpiCellFamily ==
    {[Default(s) EXCEPT !.cpi_raw =
          Table(CpiColumns,
                [i \in 1..MaxMonths |->
                    CpiRow("Ontario", CellMonths[i], CpiCells[f[i]], "All-items")])] :
        s \in FactScripts, f \in [1..MaxMonths -> 1..Len(CpiCells)]}

\* Geographies written with and without surrounding blanks, as the GEO of
\* two income rows and of one CPI row of a fact script
GeoTexts == <<"Ontario", "Canada", " Canada", "Canada ">>

GeoFamily ==
    {[Default(s) EXCEPT
          !.income_raw =
              Table(IncomeColumns,
                    <<IncomeRow(GeoTexts[g1], "2020Q1", "250", "Disposable income"),
                      IncomeRow(GeoTexts[g2], "2020Q1", "260", "Disposable income")>>),
          !.cpi_raw =
              Table(CpiColumns,
                    <<CpiRow(GeoTexts[g3], "2020-01", "100", "All-items")>>)] :
        s \in FactScripts, g1 \in 1..Len(GeoTexts), g2 \in 1..Len(GeoTexts),
        g3 \in 1..Len(GeoTexts)}

\* ------------------------------------------------------------------------
\* Specification
\* ------------------------------------------------------------------------

FactInputs ==
    IncomeFamily \cup CpiFamily \cup RatesFamily \cup ColumnsFamily
    \cup LabelFamily \cup ManyLabels \cup ScalarFamily \cup CpiCellFamily \cup GeoFamily

\* A run starts at the download with nothing computed and nothing written
Start(in) ==
    /\ script = in.script
    /\ pads = in.pads
    /\ income_raw = in.income_raw
    /\ cpi_raw = in.cpi_raw
    /\ unemp_raw = in.unemp_raw
    /\ mort_nb_raw = in.mort_nb_raw
    /\ prime_json = in.prime_json
    /\ mort5_json = in.mort5_json
    /\ pc = "download"
    /\ err = ""
    /\ diag = <<>>
    /\ files = {}
    /\ rates_q = <<>>
    /\ cpi_q = <<>>
    /\ cpi_shel_q = <<>>
    /\ unemp_q = <<>>
    /\ concept_col = ""
    /\ label = ""
    /\ income_q = <<>>
    /\ mort_q = <<>>
    /\ fact = <<>>
    /\ raw = in.raw
    /\ frame = <<>>
    /\ income = <<>>
    /\ interest = <<>>
    /\ dsr = <<>>
    /\ merged = <<>>
    /\ components_col = ""
    /\ monthly = <<>>
    /\ quarterly = <<>>
    /\ series_df = <<>>
    /\ obs_df = <<>>
    /\ out4 = <<>>

Inputs ==
    FactInputs \cup DsrFamily \cup MortgageFamily \cup InterestFamily
    \cup PeriodFamily

Init == \E in \in Inputs : Start(in)

Next == Download \/ NextFact \/ NextDsr \/ NextMortgage \/ NextInterest

Spec == Init /\ [][Next]_vars

\* ------------------------------------------------------------------------
\* Properties
\* ------------------------------------------------------------------------

\* The stages of a fact script after the income total / after the merge
AfterIncome == {"mort", "merge", "derive", "save", "done"}

AfterMerge == {"derive", "save", "done"}

\* The income rows that pass the label and dimension filters
Selected == IncomeRows(script, income_raw, concept_col, label)

\* Two of them carry one (Province, Quarter) key
Collides ==
    \E i, j \in 1..Len(Selected) :
        /\ i < j
        /\ KeyPQ(Selected[i]) = KeyPQ(Selected[j])
        /\ Selected[i].Province # "" /\ Selected[i].Quarter # NaT

\* C1: when two rows that pass the label and dimension filters share one
\* (Province, Quarter) key, the fact-table run ends in a duplicate-key
\* error instead of going on with the colliding rows summed into one row.
C1_CollisionEndsInDuplicateKey ==
    (script \in FactScripts /\ label # "" /\ pc # "income_q" /\ Collides)
        => (pc = "aborted" /\ err = "DuplicateKey")

KeysOf(rows) == {KeyPQ(rows[i]) : i \in 1..Len(rows)}

\* C2: the fact join is a left join on the income table: the fact table
\* holds exactly the base table's (Province, Quarter) keys, one row each,
\* whatever the other tables hold, and the columns of every table that
\* lacks a row's key are null in that row.
C2_LeftJoinKeepsBaseKeys ==
    (script \in FactScripts /\ pc \in AfterMerge) =>
        /\ Len(fact) = Len(income_q)
        /\ KeysOf(fact) = KeysOf(income_q)
        /\ \A i \in 1..Len(fact) :
              /\ \A k \in 1..Len(Others(script)) :
                    KeyPQ(fact[i]) \notin KeysOf(Others(script)[k].rows)
                        => \A c \in Others(script)[k].cols : IsNull(fact[i][c])
              /\ fact[i].Quarter \notin KeysQ(rates_q)
                    => \A c \in RateCols : IsNull(fact[i][c])

\* A finished run whose CPI table lacks one base key and holds another
C2_Witness ==
    /\ script \in FactScripts /\ pc = "done"
    /\ \E i, j \in 1..Len(fact) :
          /\ KeyPQ(fact[i]) \notin KeysOf(cpi_q)
          /\ \A c \in CpiCols(script) : IsNull(fact[i][c])
          /\ KeyPQ(fact[j]) \in KeysOf(cpi_q)
          /\ \E c \in CpiCols(script) : ~IsNull(fact[j][c])

\* C3: in every fact row the interest-service ratio is null whenever the
\* disposable income is null or zero, never an infinity.
C3_RatioNullOnZeroIncome ==
    (script = "pipeline" /\ pc \in {"save", "done"}) =>
        \A i \in 1..Len(fact) :
            (IsNull(fact[i].DisposableIncome_Q) \/ fact[i].DisposableIncome_Q = Num(0))
                => IsNull(fact[i].InterestServiceRatioProxy_Q)

\* The quarter one year before q
YearBefore(q) == [q EXCEPT !.y = @ - 1]

\* (value(q) - value(q')) / value(q') * 100 at row i, q' the quarter one
\* year before that of row i among the rows of the same entity; null when
\* the series holds no row for q'
YoYByCalendar(rows, i, entity, col) ==
    LET prior == {j \in 1..Len(rows) :
                     /\ \A c \in entity : rows[j][c] = rows[i][c]
                     /\ rows[j].Quarter = YearBefore(rows[i].Quarter)}
        prev  == IF prior = {} THEN NaN ELSE rows[CHOOSE j \in prior : TRUE][col]
    IN  FMul(FDiv(FSub(rows[i][col], prev), prev), Num(100))

\* C4: the year-over-year percentage of every quarter of a quarterly series
\* is taken against the calendar quarter four quarters earlier of the same
\* entity, and is null when the series has no value for that quarter.
C4_YoYAgainstSameQuarterLastYear ==
    /\ (script = "pipeline" /\ pc \notin {"download", "rates", "cpi"}) =>
          \A i \in 1..Len(cpi_q) :
              cpi_q[i].CPI_YoY_Pct = YoYByCalendar(cpi_q, i, {"Province"}, "CPI_QAvg")
    /\ (script = "mortgage" /\ pc \in {"save_monthly", "save_quarterly", "done"}) =>
          \A i \in 1..Len(quarterly) :
              quarterly[i].MortgageOutstanding_YoY_Pct
                  = YoYByCalendar(quarterly, i, {}, QAVG_CAD)

\* C5 as stated: in every script an error aborts the run with no output
\* file written before it or after it, and no error is swallowed.
C5_EveryErrorAbortsWithNoFile ==
    err # "" => (pc = "aborted" /\ files = {})

\* C5: an error aborts the run with no output file written, in every script
\* but interest_Rate.py; there a fetch or parse error does the same, while a
\* series that is not found is caught after the series map and the wide
\* table were written, and the run ends normally without the 4-column file.
C5_ErrorsAbortExceptSeriesLookup ==
    /\ (pc = "aborted") => (err # "" /\ files = {})
    /\ (err # "" /\ ~(script = "interest_Rate" /\ err = "SeriesNotFound"))
          => (pc = "aborted" /\ files = {})
    /\ (script = "interest_Rate" /\ err = "SeriesNotFound")
          => (pc = "done" /\ files = {OUT_SERIES_MAP, OUT_WIDE})

\* A run of interest_Rate.py that ended normally after a failed lookup
C5_Witness ==
    /\ script = "interest_Rate" /\ err = "SeriesNotFound" /\ pc = "done"
    /\ OUT_WIDE \in files /\ OUT_4COLS \notin files

\* C6: a row whose reference period cannot be parsed never aborts the run
\* of any script, and no quarterly table holds a row for a quarter that is
\* no quarter.
C6_UnparseablePeriodNeverAborts ==
    /\ err # "DateParseError"
    /\ \A i \in 1..Len(income_q) : income_q[i].Quarter # NaT
    /\ \A i \in 1..Len(cpi_q) : cpi_q[i].Quarter # NaT
    /\ \A i \in 1..Len(unemp_q) : unemp_q[i].Quarter # NaT
    /\ \A i \in 1..Len(mort_q) : mort_q[i].Quarter # NaT
    /\ \A i \in 1..Len(quarterly) : quarterly[i].Quarter # NaT

\* The value of the observation of the greatest date within quarter q
LatestIn(series, q) ==
    LET within == {i \in 1..Len(series) : QuarterStart(series[i].date) = q}
    IN  IF within = {} THEN NaN
        ELSE series[CHOOSE i \in within :
                        \A j \in within : ~TsLess(series[i].date, series[j].date)].value

\* C7: the quarter-end prime rate of every quarter is the value of the
\* observation of the greatest date within the quarter, null when that
\* observation has no value.
C7_LastIsLatestObservation ==
    (script \in FactScripts /\ pc \notin {"download", "rates"}) =>
        \A i \in 1..Len(rates_q) :
            rates_q[i].PrimeRate_QEnd_Pct
                = LatestIn(download_boc_series_json(prime_json), rates_q[i].Quarter)

\* C8: the rate columns are joined on Quarter alone: fact rows of one
\* Quarter carry the same rates whatever their Province, the rates of the
\* rate table's row for that quarter, null when it has none.
C8_RatesJoinOnQuarterAlone ==
    (script \in FactScripts /\ pc \in AfterMerge) =>
        /\ \A i \in 1..Len(fact) : \A c \in RateCols :
              fact[i][c] = CellAt(rates_q, fact[i].Quarter, c)
        /\ \A i, j \in 1..Len(fact) :
              fact[i].Quarter = fact[j].Quarter
                  => \A c \in RateCols : fact[i][c] = fact[j][c]

\* Two provinces in one quarter with a rate, and a quarter without one
C8_Witness ==
    /\ script \in FactScripts /\ pc = "done"
    /\ \E i, j \in 1..Len(fact) :
          /\ fact[i].Quarter = fact[j].Quarter
          /\ fact[i].Province # fact[j].Province
          /\ ~IsNull(fact[i].PrimeRate_QEnd_Pct)
    /\ \E i \in 1..Len(fact) :
          /\ fact[i].Quarter \notin KeysQ(rates_q)
          /\ IsNull(fact[i].PrimeRate_QEnd_Pct)

\* The label stage of a fact script has run (and not ended in a KeyError)
LabelResolved ==
    /\ script \in FactScripts /\ concept_col # ""
    /\ pc \notin {"income_label"}
    /\ ~(err = "KeyError" /\ label = "")

\* C9: the label is the first entry of the target list that occurs among
\* the values of the resolved column, whatever their order in the data; when
\* none occurs the run ends in a label-not-found error that carries a
\* bounded sample of the values, and no row is selected.
C9_FirstTargetLabelWins ==
    LabelResolved =>
        LET avail == Avail(script, income_raw, concept_col)
            hits  == {k \in 1..Len(DISPOSABLE_LABELS) : DISPOSABLE_LABELS[k] \in avail}
        IN  IF hits # {}
            THEN /\ err # "LabelNotFound"
                 /\ label = DISPOSABLE_LABELS[CHOOSE k \in hits : \A m \in hits : k <= m]
            ELSE /\ err = "LabelNotFound" /\ pc = "aborted" /\ label = ""
                 /\ Len(diag) <= SampleLimit(script)
                 /\ Range(diag) \subseteq avail
                 /\ Len(diag) = Cardinality(Range(diag))
                 /\ (Cardinality(avail) <= SampleLimit(script) => Range(diag) = avail)
                 /\ income_q = <<>> /\ fact = <<>> /\ files = {}

\* The first target label chosen although a later one comes first in the
\* data
C9_Witness ==
    /\ script \in FactScripts /\ pc = "done"
    /\ label = DISPOSABLE_LABELS[1]
    /\ income_raw.rows[1].GEO # "Canada"
    /\ income_raw.rows[1][concept_col] = DISPOSABLE_LABELS[2]

\* The column stage of a fact script has run: no earlier stage ended the
\* run, nor did a KeyError of its own
ColumnResolved ==
    /\ script \in FactScripts
    /\ pc \notin {"download", "rates", "cpi", "unemp", "income_col"}
    /\ err # "FetchError"
    /\ RatesStage.err = "" /\ CpiStage.err = "" /\ UnempStage.err = ""
    /\ IncomeColStage.err # "KeyError"

\* The columns of the income table when the column is resolved
IncomeCols == income_raw.cols \o Added(script, FALSE)

\* The first column, in table order, whose name contains text
FirstContaining(cols, texts) ==
    LET hit == {i \in 1..Len(cols) :
                   \E t \in texts : Contains(Lower(cols[i]), Lower(t))}
    IN  IF hit = {} THEN "" ELSE cols[CHOOSE i \in hit : \A j \in hit : i <= j]

\* The fallback keywords of script s in the order it tries them
FallbackKeywords(s) ==
    IF s = "fact_core" THEN <<"income", "transactions">>
    ELSE <<"transactions", "income">>

\* C10 as stated: the column is the first candidate that is a column, else
\* the first column whose name contains a fallback keyword, else the run
\* ends in a column-not-found error listing every column.
C10_FallbackIsFirstColumnWithAKeyword ==
    ColumnResolved =>
        LET cand == FirstOf(candidate_concept_cols(script), Range(IncomeCols))
            back == FirstContaining(IncomeCols, Range(FallbackKeywords(script)))
        IN  IF cand # "" THEN concept_col = cand
            ELSE IF back # "" THEN concept_col = back
            ELSE err = "ColumnNotFound" /\ pc = "aborted" /\ diag = IncomeCols

\* C10: the column is the first candidate that is a column; else the first
\* column whose name contains the script's first fallback keyword; else the
\* first column whose name contains its second fallback keyword; else the
\* run ends in a column-not-found error listing every column.
C10_FallbackTriesKeywordsInOrder ==
    ColumnResolved =>
        LET cand   == FirstOf(candidate_concept_cols(script), Range(IncomeCols))
            first  == FirstContaining(IncomeCols, {FallbackKeywords(script)[1]})
            second == FirstContaining(IncomeCols, {FallbackKeywords(script)[2]})
        IN  IF cand # "" THEN concept_col = cand /\ err # "ColumnNotFound"
            ELSE IF first # "" THEN concept_col = first /\ err # "ColumnNotFound"
            ELSE IF second # "" THEN concept_col = second /\ err # "ColumnNotFound"
            ELSE /\ err = "ColumnNotFound" /\ pc = "aborted" /\ concept_col = ""
                 /\ diag = IncomeCols
                 /\ income_q = <<>> /\ files = {}

\* No candidate is a column, and the column found by the first keyword
\* comes after a column holding the second keyword
C10_Witness ==
    /\ script \in FactScripts /\ pc = "done"
    /\ FirstOf(candidate_concept_cols(script), Range(IncomeCols)) = ""
    /\ concept_col = FirstContaining(IncomeCols, {FallbackKeywords(script)[1]})
    /\ concept_col # FirstContaining(IncomeCols, Range(FallbackKeywords(script)))

\* The multiplier of a scalar-factor text: the four plural keys compared
\* case-insensitively, 1 for any other text and for an empty cell
StatedMult(text) ==
    CASE Lower(text) = "units" -> 1
      [] Lower(text) = "thousands" -> 1000
      [] Lower(text) = "millions" -> 1000000
      [] Lower(text) = "billions" -> 1000000000
      [] OTHER -> 1

\* The same with the singular spellings as keys
SingularMult(text) ==
    CASE Lower(text) = "unit" -> 1
      [] Lower(text) = "thousand" -> 1000
      [] Lower(text) = "million" -> 1000000
      [] Lower(text) = "billion" -> 1000000000
      [] OTHER -> StatedMult(text)

AfterMonthly == {"quarterly", "save_monthly", "save_quarterly", "done"}

\* Every filtered row of mortgage_amount_canada_housing.py has its monthly
\* row, whose dollar value is VALUE times the row's multiplier (1 when the
\* table has no SCALAR_FACTOR column)
MonthlyScaledBy(singular) ==
    (script = "mortgage" /\ pc \in AfterMonthly) =>
        /\ Len(monthly) = Len(frame.rows)
        /\ \A i \in 1..Len(frame.rows) : \E j \in 1..Len(monthly) :
              /\ monthly[j].Month = frame.rows[i].Month
              /\ monthly[j][MONTHLY_CAD] =
                    FMul(frame.rows[i].VALUE,
                         Num(IF ~HasCol(frame, "SCALAR_FACTOR") THEN 1
                             ELSE IF singular
                                  THEN SingularMult(frame.rows[i].SCALAR_FACTOR)
                                  ELSE StatedMult(frame.rows[i].SCALAR_FACTOR)))

\* The raw income rows of the resolved label that the script sums
SelectedRaw ==
    SelectSeq(IncomeProv(script, income_raw), LAMBDA r : r[concept_col] = label)

\* The total of key k when every summed row is first multiplied by the
\* multiplier of its own scalar factor
BaseTotal(k) ==
    LET rs == SelectSeq(SelectedRaw, LAMBDA r :
                  <<ProvinceOf(script, r), to_quarter_start_from_date(r.REF_DATE)>> = k)
    IN  Total(NonNull([i \in 1..Len(rs) |->
                          FMul(ToNumeric(rs[i].VALUE),
                               Num(StatedMult(rs[i].SCALAR_FACTOR)))]))

\* The dollar total of fact_core_province_stress.py is the total of the
\* rows' values times their multipliers
IncomeScaled ==
    (script = "fact_core" /\ pc \in AfterIncome) =>
        \A i \in 1..Len(income_q) :
            income_q[i].DisposableIncome_Q_CAD = BaseTotal(KeyPQ(income_q[i]))

\* C11 as stated: the multiplier of a row is 1, 1e3, 1e6 or 1e9 when its
\* scalar factor is units, thousands, millions or billions in any case, and
\* 1 for every other text and for a missing scalar factor; the normalized
\* value is value * multiplier.
C11_OtherTextsMultiplyByOne ==
    MonthlyScaledBy(FALSE) /\ IncomeScaled

\* C11: the same, but in mortgage_amount_canada_housing.py the singular
\* texts unit, thousand, million and billion are keys as well, with the
\* multipliers of their plurals.
C11_MultiplierOfScalarFactor ==
    MonthlyScaledBy(TRUE) /\ IncomeScaled

\* A finished mortgage run whose row in "Thousand" was multiplied by 1000
C11_Witness ==
    /\ script = "mortgage" /\ pc = "done"
    /\ \E i \in 1..Len(frame.rows) :
          /\ frame.rows[i].SCALAR_FACTOR = "Thousand"
          /\ frame.rows[i].VALUE = Num(1)
          /\ \E j \in 1..Len(monthly) : monthly[j][MONTHLY_CAD] = Num(1000)

C13_TotalsAreScaledRowByRow ==
    /\ IncomeScaled
    /\ (script = "pipeline" /\ pc \in AfterIncome) =>
          \A i \in 1..Len(income_q) :
              \E u \in {1, 1000, 1000000, 1000000000} :
                  income_q[i].DisposableIncome_Q
                      = FDiv(BaseTotal(KeyPQ(income_q[i])), Num(u))

\* A token <year>Q<n>, <year>-Q<n> or <year> Q<n>, Q in either case
IsPeriodToken(s) ==
    /\ Len(s) \in {6, 7}
    /\ AllDigits(SubSeq(s, 1, 4))
    /\ Len(s) = 7 => CharAt(s, 5) \in {"-", " "}
    /\ CharAt(s, Len(s) - 1) \in {"Q", "q"}
    /\ CharAt(s, Len(s)) \in {"1", "2", "3", "4"}

\* January 1, April 1, July 1 or October 1 of the token's year
TokenDate(s) ==
    [y |-> ToInt(SubSeq(s, 1, 4)),
     m |-> CASE CharAt(s, Len(s)) = "1" -> 1
             [] CharAt(s, Len(s)) = "2" -> 4
             [] CharAt(s, Len(s)) = "3" -> 7
             [] CharAt(s, Len(s)) = "4" -> 10,
     d |-> 1]

AfterDsrParse == {"select", "merge", "guard", "save", "done"}

\* C14: the period parser maps the tokens YQn, Y-Qn and Y Qn, with Q in
\* either case, to the first day of quarter n of year Y: in
\* household_interest_income_dsr.py such a token never fails the parse and
\* its row gets that date; in pipeline.py and fact_core_province_stress.py
\* the selected income row of such a token is totalled under that date.
C14_TokensMapToQuarterStart ==
    /\ (script = "dsr" /\ err = "DateParseError") =>
          \E i \in 1..Len(raw.rows) : ~IsPeriodToken(raw.rows[i].REF_DATE)
    /\ (script = "dsr" /\ pc \in AfterDsrParse) =>
          \A i \in 1..Len(raw.rows) :
              IsPeriodToken(raw.rows[i].REF_DATE)
                  => frame[i].Period_Quarter = TokenDate(raw.rows[i].REF_DATE)
    /\ (script \in FactScripts /\ pc \in AfterIncome) =>
          \A k \in 1..Len(SelectedRaw) :
              (IsPeriodToken(SelectedRaw[k].REF_DATE) /\ SelectedRaw[k].GEO # "")
                  => \E i \in 1..Len(income_q) :
                        /\ income_q[i].Quarter = TokenDate(SelectedRaw[k].REF_DATE)
                        /\ income_q[i].Province = ProvinceOf(script, SelectedRaw[k])

\* The column of the quarterly CPI mean
CpiAvgCol(s) == IF s = "fact_core" THEN "CPI_AllItems_QAvg_Index_2002eq100" ELSE "CPI_QAvg"

\* The VALUE cells of the All-items rows of province prov in quarter q
CpiCellsOf(prov, q) ==
    LET sel == SelectSeq(cpi_raw.rows, LAMBDA r :
                   /\ r.GEO # "Canada" /\ ProvinceOf(script, r) = prov
                   /\ r[prod_col] = CPI_ALL_ITEMS_LABEL /\ r.UOM = CPI_BASE
                   /\ QuarterStart(to_month_start(r.REF_DATE)) = q)
    IN  [i \in 1..Len(sel) |-> sel[i].VALUE]

\* The mean of the cells that are numbers; null when none is
MeanOfNumbers(cells) ==
    LET nums == SelectSeq(cells, LAMBDA c : ~IsNull(ToNumeric(c)))
    IN  IF nums = <<>> THEN NaN
        ELSE FDiv(Total([i \in 1..Len(nums) |-> ToNumeric(nums[i])]), Num(Len(nums)))

AfterCpi == {"unemp", "income_col", "income_label", "income_q", "mort", "merge",
             "derive", "save", "done"}

\* C15: a VALUE cell that is no plain number ('1,234.5', 'x') fails no run
\* and is left out of the quarterly mean of its (Province, Quarter), which
\* is the mean of the remaining cells: the cell counts neither in the
\* numerator nor in the denominator.
C15_NonNumericCellsLeftOutOfMean ==
    /\ (script \in FactScripts /\ Range(CpiColumns) \subseteq Range(cpi_raw.cols))
          => CpiStage.err = ""
    /\ (script \in FactScripts /\ pc \in AfterCpi) =>
          \A i \in 1..Len(cpi_q) :
              cpi_q[i][CpiAvgCol(script)]
                  = MeanOfNumbers(CpiCellsOf(cpi_q[i].Province, cpi_q[i].Quarter))

\* A finished run with a quarter of two numbers and a cell '1,234.5', whose
\* mean is that of the two numbers
C15_Witness ==
    /\ script \in FactScripts /\ pc = "done"
    /\ \E i \in 1..Len(cpi_q) :
          /\ cpi_q[i][CpiAvgCol(script)] = Num(103)
          /\ \E k \in 1..Len(cpi_raw.rows) : cpi_raw.rows[k].VALUE = "1,234.5"
          /\ Len(CpiCellsOf(cpi_q[i].Province, cpi_q[i].Quarter)) = 3

\* The metric columns of the quarterly income table
IncomeMetricCols(s) ==
    IF s = "fact_core" THEN {"DisposableIncome_Q_MillionCAD", "DisposableIncome_Q_CAD"}
    ELSE {"DisposableIncome_Q"}

\* No two rows of the table carry one (Province, Quarter)
UniquePQ(rows) ==
    \A i, j \in 1..Len(rows) : KeyPQ(rows[i]) = KeyPQ(rows[j]) => i = j

\* The table left-joined with itself has the table's rows, keys and values
SelfJoinReturns(rows, cols) ==
    LET j == SelfMerge(rows, <<"Province", "Quarter">>, cols)
    IN  /\ Len(j) = Len(rows)
        /\ \A i \in 1..Len(rows) :
              /\ KeyPQ(j[i]) = KeyPQ(rows[i])
              /\ \A c \in cols : j[i][c \o "_x"] = rows[i][c] /\ j[i][c \o "_y"] = rows[i][c]

UniqueQ(rows) ==
    \A i, j \in 1..Len(rows) : rows[i].Quarter = rows[j].Quarter => i = j

\* C17: every quarterly table of the aggregator (CPI, shelter CPI,
\* unemployment, disposable income, non-bank mortgages, rates, the mortgage
\* quarterly table) has at most one row per (Province, Quarter) or per
\* Quarter, whatever the input rows, and assert_unique_key never raises.
C17_AggregatorKeysAreUnique ==
    /\ UniquePQ(cpi_q) /\ UniquePQ(cpi_shel_q) /\ UniquePQ(unemp_q)
    /\ UniquePQ(income_q) /\ UniquePQ(mort_q)
    /\ UniqueQ(rates_q) /\ UniqueQ(quarterly)
    /\ script \in FactScripts => err # "DuplicateKey"

\* A finished pipeline run whose income input held two rows of one key and
\* whose CPI input held two months of one quarter
C17_Witness ==
    /\ script = "pipeline" /\ pc = "done"
    /\ Collides
    /\ Len(income_q) = 1
    /\ \E i \in 1..Len(cpi_q) :
          Len(CpiCellsOf(cpi_q[i].Province, cpi_q[i].Quarter)) >= 2

\* Two rows of the table carry one (Period_Quarter, GEO)
SharesPeriodGeo(rows) ==
    \E i, j \in 1..Len(rows) :
        /\ i < j
        /\ rows[i].Period_Quarter = rows[j].Period_Quarter
        /\ rows[i].GEO = rows[j].GEO

\* C18: household_interest_income_dsr.py writes its CSV only when no two
\* rows of the outer-merged table share (Period_Quarter, GEO); when one of
\* the three filtered series holds two rows of one (Period_Quarter, GEO)
\* the run ends in the duplicate error with no file written.
C18_DuplicateGuardBeforeWrite ==
    script = "dsr" =>
        /\ (files # {} \/ pc \in {"save", "done"}) => ~SharesPeriodGeo(merged)
        /\ (pc \notin {"merge", "guard"}
              /\ (SharesPeriodGeo(income) \/ SharesPeriodGeo(interest)
                    \/ SharesPeriodGeo(dsr)))
              => (pc = "aborted" /\ err = "DuplicateKey" /\ files = {})

\* A run that ended in the duplicate error for two household-income rows
\* of one quarter and geography
C18_Witness ==
    /\ script = "dsr" /\ pc = "aborted" /\ err = "DuplicateKey"
    /\ SharesPeriodGeo(income)
    /\ ~SharesPeriodGeo(interest) /\ ~SharesPeriodGeo(dsr)

\* The ids the four lookups of build_4col_output return, in its order
SelectedIds ==
    [k \in 1..Len(Wanted) |->
        find_series_id(series_df, obs_df, Wanted[k].label,
                       base_tokens \o <<Wanted[k].token>>)]

\* The description of the series of the given id
DescriptionOf(id) ==
    series_df[CHOOSE i \in 1..Len(series_df) : series_df[i].id = id].description

\* C19: when build_4col_output returns, the series of each Insured column
\* is none whose description says 'uninsured', the four selected ids are
\* pairwise distinct, and the output has Date and the four distinctly named
\* rate columns.
C19_InsuredColumnsAreInsuredSeries ==
    (script = "interest_Rate" /\ pc \in {"save_4cols", "done"} /\ err = "") =>
        /\ \A k \in 1..Len(Wanted) :
              Wanted[k].token = "insured"
                  => ~Contains(Lower(DescriptionOf(SelectedIds[k])), "uninsured")
        /\ \A k, m \in 1..Len(Wanted) : SelectedIds[k] = SelectedIds[m] => k = m
        /\ out4.cols = <<"Date">> \o [k \in 1..Len(Wanted) |-> Wanted[k].name]

\* No row of the table names Canada as its Province, however the text is
\* padded with blanks
NoCanadaRow(rows) ==
    \A i \in 1..Len(rows) : Strip(AsStr(rows[i].Province)) # "Canada"

\* C20: no row of the province-level fact table has Province 'Canada', and
\* no input row whose GEO is Canada, with or without leading or trailing
\* blanks, is part of a per-province quarterly table.
C20_CanadaLeftOutOfProvinceTables ==
    script \in FactScripts =>
        /\ fact # <<>> => \A i \in 1..Len(fact) : fact[i].Province # "Canada"
        /\ NoCanadaRow(income_q) /\ NoCanadaRow(cpi_q) /\ NoCanadaRow(cpi_shel_q)
        /\ NoCanadaRow(unemp_q) /\ NoCanadaRow(mort_q)

\* The numeric values of the selected income rows of key k
IncomeCellsOf(k) ==
    LET rs == SelectSeq(Selected, LAMBDA r : KeyPQ(r) = k)
    IN  [i \in 1..Len(rs) |-> rs[i].VALUE]

\* C21: a (Province, Quarter) group whose contributing disposable-income
\* values are all null has a null quarterly disposable income, never zero.
C21_AllNullGroupSumsToNull ==
    (script \in FactScripts /\ pc \in AfterIncome) =>
        \A i \in 1..Len(income_q) :
            NonNull(IncomeCellsOf(KeyPQ(income_q[i]))) = <<>>
                => \A c \in IncomeMetricCols(script) : IsNull(income_q[i][c])

====
